---- MODULE Spec2Model ----
(***************************************************************************)
(* Model of the cairo-hints oracle runtime: the protobuf <-> field-element *)
(* codec (cairo-proto-serde) and the cheat-code hint interceptor           *)
(* (cairo-oracle-hint-processor, rpc_hint_processor.rs).                   *)
(*                                                                         *)
(* Scaling.  TLC's integers are 32 bits wide, so the 252-bit field and the *)
(* machine integer widths are scaled down, keeping their order:            *)
(*   bytes are 0..ByteBase-1 (256 in the code), a ByteArray word packs     *)
(*   BytesPerWord bytes (31), a felt has BytesPerWord+1 bytes (32),        *)
(*   2^Bits32 - 1 = u32::MAX, 2^Bits64 - 1 = u64::MAX, and                 *)
(*   ByteBase^BytesPerWord < FeltPrime < ByteBase^(BytesPerWord+1).        *)
(***************************************************************************)
EXTENDS Integers, Sequences, FiniteSets, TLC

VARIABLES
    \* ---- codec harness (SpecCodec): one application of the pure functions
    cPc,        \* "start" | "mid" | "done"
    cDir,       \* "ser-de": serialize then deserialize; "de-ser": the converse
    cTy,        \* the FieldType
    cJson,      \* the JSON value (input of ser-de, result of de-ser)
    cFelts,     \* the felt sequence (input of de-ser, result of ser-de)
    cSer,       \* result record of serialize_cairo_serde
    cDe,        \* result record of deserialize_cairo_serde
    \* ---- the VM and the hint processor (Spec, SpecPoll)
    mem,            \* VM memory: written cell <<segment, offset>> -> value
    num_segments,   \* number of memory segments of the VM
    ap,             \* next free offset of the execution segment
    hintsLeft,      \* cheat-code hints the Cairo program still executes
    servers_config, \* selector -> ServerConfig (loaded once per run)
    pc,             \* where the run is: "vm", "await_sync", "await_post",
                    \* "loop", "await_get", "halted" (hint error), "aborted" (panic)
    hint,           \* the Cheatcode hint being executed
    cc,             \* locals of execute_cheatcode
    elapsed,        \* start_time.elapsed(), in seconds
    requests,       \* HTTP requests sent by the current invocation, in order
    returned,       \* what execute_cheatcode returned last
    history,        \* the completed invocations of the run, in order
    \* ---- the test runner (SpecTest)
    tPc,            \* "idle" | "compiled" | "running" | "passed" | "failed" | "aborted"
    tConfig,        \* TestRunConfig
    tCompiled,      \* named_tests of the TestCompilation, as compiled
    tNamed,         \* named_tests after filter_test_cases
    tFilteredOut,   \* the count returned by filter_test_cases
    tPending,       \* indices of tNamed not yet through run_tests
    tSummary,       \* TestsSummary
    tRuns,          \* the calls of run_1 made so far: test name and run result
    \* ---- the command-line tools and the code generator, one call at a time
    uPc,            \* where the call is
    uIn,            \* the input of the call
    uSt             \* the locals of the call, then its result

codecVars == <<cPc, cDir, cTy, cJson, cFelts, cSer, cDe>>
testVars == <<tPc, tConfig, tCompiled, tNamed, tFilteredOut, tPending, tSummary, tRuns>>
toolVars == <<uPc, uIn, uSt>>
hpVars == <<mem, num_segments, ap, hintsLeft, servers_config, pc, hint, cc, elapsed,
            requests, returned, history>>

-----------------------------------------------------------------------------
\* Bounds of the scaled arithmetic.
ByteBase == 64
BytesPerWord == 2
Bits32 == 3
Bits64 == 5

FeltBytes == BytesPerWord + 1
WordModulus == ByteBase ^ BytesPerWord
\* The Stark prime is 2^251 + 17*2^192 + 1 = 8 * 256^31 + ... + 1.
FeltPrime == 8 * WordModulus + 1

U32Max == 2 ^ Bits32 - 1
U64Max == 2 ^ Bits64 - 1
I32Max == 2 ^ (Bits32 - 1) - 1
I32Min == 0 - 2 ^ (Bits32 - 1)
I64Max == 2 ^ (Bits64 - 1) - 1
I64Min == 0 - 2 ^ (Bits64 - 1)
UsizeMax == U64Max

Min(a, b) == IF a <= b THEN a ELSE b
Max(a, b) == IF a >= b THEN a ELSE b

-----------------------------------------------------------------------------
\* serde_json::Value.  A value is a tuple whose first element is its kind.
\* Strings are sequences of bytes of the scaled alphabet.
JNull == <<"null">>
JBool(b) == <<"bool", b>>
JNum(n) == <<"num", n>>
JStr(s) == <<"str", s>>
JArr(a) == <<"arr", a>>
JObj(f) == <<"obj", f>>

Kind(v) == v[1]
is_null(v) == Kind(v) = "null"
is_object(v) == Kind(v) = "obj"
\* Value::as_u64 / as_i64: Some only for an integer number in range.
as_u64_ok(v) == Kind(v) = "num" /\ v[2] >= 0 /\ v[2] <= U64Max
as_i64_ok(v) == Kind(v) = "num" /\ v[2] >= I64Min /\ v[2] <= I64Max
as_bool_ok(v) == Kind(v) = "bool"
as_str_ok(v) == Kind(v) = "str"
as_array_ok(v) == Kind(v) = "arr"
\* Map::get
HasKey(v, k) == k \in DOMAIN v[2]
Get(v, k) == v[2][k]

\* The scaled alphabet: NUL, the characters 0-9 a-f x A-F, other ASCII, and
\* the UTF-8 continuation and lead bytes (0x80, 0xC0, 0xE0, 0xF0, 0xF8 scaled).
AsciiLimit == ByteBase \div 2
Lead2Start == (3 * ByteBase) \div 4
Lead3Start == (7 * ByteBase) \div 8
Lead4Start == (15 * ByteBase) \div 16
LeadEnd == (31 * ByteBase) \div 32
ChNul == 0
ChZero == ChNul + 1
ChLowerA == ChZero + 10
ChX == ChLowerA + 6
ChUpperA == ChX + 1
ChOther == ChUpperA + 6

IsDecDigit(c) == c >= ChZero /\ c < ChZero + 10
IsHexDigit(c) == IsDecDigit(c) \/ (c >= ChLowerA /\ c < ChLowerA + 6)
                    \/ (c >= ChUpperA /\ c < ChUpperA + 6)
DigitValue(c) == IF IsDecDigit(c) THEN c - ChZero
                 ELSE IF c >= ChLowerA /\ c < ChLowerA + 6 THEN c - ChLowerA + 10
                 ELSE c - ChUpperA + 10
HexChar(d) == IF d < 10 THEN ChZero + d ELSE ChLowerA + (d - 10)

\* std::str::from_utf8 on the scaled alphabet: 1-, 2-, 3- and 4-byte sequences.
IsCont(c) == c >= AsciiLimit /\ c < Lead2Start
SeqLenOfLead(c) == IF c < AsciiLimit THEN 1
                   ELSE IF c < Lead2Start THEN 0
                   ELSE IF c < Lead3Start THEN 2
                   ELSE IF c < Lead4Start THEN 3
                   ELSE IF c < LeadEnd THEN 4
                   ELSE 0
RECURSIVE ValidUtf8From(_, _)
ValidUtf8From(b, i) ==
    IF i > Len(b) THEN TRUE
    ELSE LET n == SeqLenOfLead(b[i]) IN
         /\ n > 0
         /\ i + n - 1 <= Len(b)
         /\ \A j \in (i + 1)..(i + n - 1) : IsCont(b[j])
         /\ ValidUtf8From(b, i + n)
ValidUtf8(b) == ValidUtf8From(b, 1)

-----------------------------------------------------------------------------
\* Felt252 helpers (starknet field element), on 0..FeltPrime-1.

\* Felt252::from(i64): a negative value is canonicalised into the field.
FeltFromInt(n) == IF n >= 0 THEN n % FeltPrime ELSE (FeltPrime - ((0 - n) % FeltPrime)) % FeltPrime

\* Felt252::to_bigint: the representative in [0, P).
to_bigint(f) == f

\* Felt252::from_bytes_be_slice: big-endian, reduced into the field.
RECURSIVE BytesToNat(_)
BytesToNat(b) == IF Len(b) = 0 THEN 0
                 ELSE BytesToNat(SubSeq(b, 1, Len(b) - 1)) * ByteBase + b[Len(b)]
from_bytes_be_slice(b) == BytesToNat(b) % FeltPrime

\* The FeltBytes-byte little-endian form.
to_bytes_le(f) == [i \in 1..FeltBytes |-> (f \div (ByteBase ^ (i - 1))) % ByteBase]
\* Felt252::to_bytes_be: the FeltBytes-byte big-endian form.
to_bytes_be(f) == [i \in 1..FeltBytes |-> (f \div (ByteBase ^ (FeltBytes - i))) % ByteBase]

\* Felt252::from_hex / from_dec_str: Err on a non-digit or on no digit.
RECURSIVE DigitsToNat(_, _)
DigitsToNat(s, radix) ==
    IF Len(s) = 0 THEN 0
    ELSE (DigitsToNat(SubSeq(s, 1, Len(s) - 1), radix) * radix + DigitValue(s[Len(s)])) % FeltPrime
starts_with_0x(s) == Len(s) >= 2 /\ s[1] = ChZero /\ s[2] = ChX
HexDigitsOf(s) == SubSeq(s, 3, Len(s))
from_hex_ok(s) == LET d == HexDigitsOf(s) IN Len(d) > 0 /\ \A i \in 1..Len(d) : IsHexDigit(d[i])
from_hex(s) == DigitsToNat(HexDigitsOf(s), 16)
from_dec_str_ok(s) == Len(s) > 0 /\ \A i \in 1..Len(s) : IsDecDigit(s[i])
from_dec_str(s) == DigitsToNat(s, 10)

\* BigInt::to_str_radix(16): lowercase, no leading zeros, "0" for zero.
RECURSIVE to_str_radix16(_)
to_str_radix16(n) == IF n < 16 THEN <<HexChar(n)>>
                     ELSE Append(to_str_radix16(n \div 16), HexChar(n % 16))

-----------------------------------------------------------------------------
\* configuration::FieldType and PrimitiveType.
Primitive(p) == <<"primitive", p>>
Message(n) == <<"message", n>>
Enum(n) == <<"enum", n>>
Option(t) == <<"option", t>>
Array(t) == <<"array", t>>
Field(name, ty) == [name |-> name, ty |-> ty]

\* A field name is the sequence of its segments, so that the "felt252_"
\* prefix can be stripped as the code strips it.
Felt252Prefix == "felt252_"
\* str::trim_start_matches("felt252_"): removes every leading repetition.
RECURSIVE trim_start_matches(_)
trim_start_matches(name) ==
    IF Len(name) > 0 /\ name[1] = Felt252Prefix THEN trim_start_matches(Tail(name))
    ELSE name

SerPanic == [ok |-> FALSE, felts |-> <<>>]
SerOk(f) == [ok |-> TRUE, felts |-> f]
DePanic == [ok |-> FALSE, val |-> JNull, rest |-> <<>>]
DeOk(v, r) == [ok |-> TRUE, val |-> v, rest |-> r]

\* The bytes packed into one felt, without chunking.
ChunkFeltsWhole(b) == IF Len(b) = 0 THEN <<>> ELSE <<from_bytes_be_slice(b)>>
\* slice.chunks(31) of the bytes, each chunk packed big-endian into a felt.
RECURSIVE ChunkFelts(_)
ChunkFelts(b) ==
    IF Len(b) = 0 THEN <<>>
    ELSE <<from_bytes_be_slice(SubSeq(b, 1, Min(BytesPerWord, Len(b))))>>
            \o ChunkFelts(SubSeq(b, Min(BytesPerWord, Len(b)) + 1, Len(b)))

serialize_primitive(ty, value) ==
    CASE ty = "FELT252" ->
            IF ~as_str_ok(value) THEN SerPanic
            ELSE IF starts_with_0x(value[2])
                 THEN (IF from_hex_ok(value[2]) THEN SerOk(<<from_hex(value[2])>>) ELSE SerPanic)
                 ELSE (IF from_dec_str_ok(value[2]) THEN SerOk(<<from_dec_str(value[2])>>) ELSE SerPanic)
      [] ty \in {"U64", "U32"} ->
            IF as_u64_ok(value) THEN SerOk(<<FeltFromInt(value[2])>>) ELSE SerPanic
      [] ty \in {"I32", "I64"} ->
            IF as_i64_ok(value) THEN SerOk(<<FeltFromInt(value[2])>>) ELSE SerPanic
      [] ty = "BYTEARRAY" ->
            IF ~as_str_ok(value) THEN SerPanic
            ELSE LET bytes == value[2]
                     total_length == Len(bytes) \div BytesPerWord
                     last_row_length == Len(bytes) % BytesPerWord
                 IN SerOk(<<total_length>> \o ChunkFelts(bytes)
                          \o (IF last_row_length = 0 THEN <<0>> ELSE <<>>)
                          \o <<last_row_length>>)
      [] ty = "BOOL" ->
            IF as_bool_ok(value) THEN SerOk(<<IF value[2] THEN 1 ELSE 0>>) ELSE SerPanic

\* The 31 low bytes of each full word, in order.
RECURSIVE WordBytes(_)
WordBytes(data) ==
    IF Len(data) = 0 THEN <<>>
    ELSE SubSeq(to_bytes_be(data[1]), 2, FeltBytes) \o WordBytes(Tail(data))

\* A decoder that reads every non-zero felt as true.
decode_bool_nonzero(num, value) == DeOk(JBool(num # 0), value)
\* PrimitiveType::BOOL: is_one -> true, is_zero -> false, else panic!.
decode_bool(num, value) ==
    IF num = 1 THEN DeOk(JBool(TRUE), value)
    ELSE IF num = 0 THEN DeOk(JBool(FALSE), value)
    ELSE DePanic

deserialize_primitive(ty, s) ==
    IF Len(s) = 0 THEN DePanic      \* value[0]: index out of bounds
    ELSE
    LET num == to_bigint(s[1])
        value == Tail(s)
    IN CASE ty = "FELT252" -> DeOk(JStr(<<ChZero, ChX>> \o to_str_radix16(num)), value)
         [] ty = "U64" -> IF num <= U64Max THEN DeOk(JNum(num), value) ELSE DePanic
         [] ty = "U32" -> IF num <= U32Max THEN DeOk(JNum(num), value) ELSE DePanic
         [] ty = "I32" -> IF num <= I32Max THEN DeOk(JNum(num), value) ELSE DePanic
         [] ty = "I64" -> IF num <= I64Max THEN DeOk(JNum(num), value) ELSE DePanic
         [] ty = "BYTEARRAY" ->
              IF num > UsizeMax THEN DePanic
              ELSE LET data_len == num IN
                   IF data_len + 2 > Len(value) THEN DePanic    \* slice / index out of range
                   ELSE LET data == SubSeq(value, 1, data_len)
                            pending_word == value[data_len + 1]
                            pending_word_len == value[data_len + 2]
                        IN IF pending_word_len > U32Max \/ pending_word_len > FeltBytes
                           THEN DePanic    \* to_u32().unwrap(), 32 - len underflow
                           ELSE LET trim_len == FeltBytes - pending_word_len
                                    v == WordBytes(data)
                                           \o SubSeq(to_bytes_be(pending_word), trim_len + 1, FeltBytes)
                                IN IF ValidUtf8(v)
                                   THEN DeOk(JStr(v), SubSeq(value, data_len + 3, Len(value)))
                                   ELSE DePanic
         [] ty = "BOOL" -> decode_bool(num, value)

\* A flag that marks presence with 1 and absence with 0.
option_flag_natural(value) == JNum(IF is_null(value) THEN 0 ELSE 1)
\* The flag written ahead of an Option: json!(1) for null, json!(0) otherwise.
option_flag(value) == JNum(IF is_null(value) THEN 1 ELSE 0)

RECURSIVE serialize_cairo_serde(_, _, _)
RECURSIVE SerFields(_, _, _, _)
RECURSIVE SerElements(_, _, _, _)

\* for field in message_config { ... }, from field i on.
SerFields(config, fields, i, value) ==
    IF i > Len(fields) THEN SerOk(<<>>)
    ELSE LET field == fields[i]
             key == IF HasKey(value, field.name) THEN field.name
                    ELSE trim_start_matches(field.name)
         IN IF ~HasKey(value, key) THEN SerPanic
            ELSE LET h == serialize_cairo_serde(config, field.ty, Get(value, key)) IN
                 IF ~h.ok THEN SerPanic
                 ELSE LET t == SerFields(config, fields, i + 1, value) IN
                      IF t.ok THEN SerOk(h.felts \o t.felts) ELSE SerPanic

\* for element in value { ... }, from element i on.
SerElements(config, value_ty, elems, i) ==
    IF i > Len(elems) THEN SerOk(<<>>)
    ELSE LET h == IF value_ty = Primitive("FELT252")
                  THEN serialize_primitive("FELT252", elems[i])
                  ELSE serialize_cairo_serde(config, value_ty, elems[i])
         IN IF ~h.ok THEN SerPanic
            ELSE LET t == SerElements(config, value_ty, elems, i + 1) IN
                 IF t.ok THEN SerOk(h.felts \o t.felts) ELSE SerPanic

serialize_cairo_serde(config, ty, value) ==
    CASE ty[1] = "primitive" -> serialize_primitive(ty[2], value)
      [] ty[1] = "message" ->
            IF ty[2] \notin DOMAIN config.messages THEN SerPanic
            ELSE IF ~is_object(value) THEN SerPanic
            ELSE SerFields(config, config.messages[ty[2]], 1, value)
      [] ty[1] = "enum" -> serialize_primitive("I32", value)
      [] ty[1] = "option" ->
            IF is_null(value) THEN serialize_primitive("U64", option_flag(value))
            ELSE LET r == serialize_cairo_serde(config, ty[2], value) IN
                 IF r.ok THEN SerOk(serialize_primitive("U64", option_flag(value)).felts \o r.felts)
                 ELSE SerPanic
      [] ty[1] = "array" ->
            IF ~as_array_ok(value) THEN SerPanic
            ELSE LET r == SerElements(config, ty[2], value[2], 1) IN
                 IF r.ok THEN SerOk(serialize_primitive("U64", JNum(Len(value[2]))).felts \o r.felts)
                 ELSE SerPanic

RECURSIVE deserialize_cairo_serde(_, _, _)
RECURSIVE DeFields(_, _, _, _, _)
RECURSIVE DeElements(_, _, _, _, _)

\* Map::insert: a later field of the same name replaces the earlier one.
MapInsert(m, k, v) == [x \in (DOMAIN m) \cup {k} |-> IF x = k THEN v ELSE m[x]]
EmptyMap == [x \in {} |-> JNull]

DeFields(config, fields, i, s, result) ==
    IF i > Len(fields) THEN DeOk(JObj(result), s)
    ELSE LET h == deserialize_cairo_serde(config, fields[i].ty, s) IN
         IF ~h.ok THEN DePanic
         ELSE DeFields(config, fields, i + 1, h.rest, MapInsert(result, fields[i].name, h.val))

\* for _ in 0..len { result.push(...) }
DeElements(config, value_ty, n, s, result) ==
    IF n = 0 THEN DeOk(JArr(result), s)
    ELSE LET h == IF value_ty = Primitive("FELT252")
                  THEN deserialize_primitive("FELT252", s)
                  ELSE deserialize_cairo_serde(config, value_ty, s)
         IN IF ~h.ok THEN DePanic
            ELSE DeElements(config, value_ty, n - 1, h.rest, Append(result, h.val))

deserialize_cairo_serde(config, ty, s) ==
    CASE ty[1] = "primitive" -> deserialize_primitive(ty[2], s)
      [] ty[1] = "message" ->
            IF ty[2] \notin DOMAIN config.messages THEN DePanic
            ELSE DeFields(config, config.messages[ty[2]], 1, s, EmptyMap)
      [] ty[1] = "enum" -> deserialize_primitive("I32", s)
      [] ty[1] = "option" ->
            LET idx == deserialize_primitive("U64", s) IN
            IF ~idx.ok THEN DePanic
            ELSE IF idx.val = JNum(0) THEN deserialize_cairo_serde(config, ty[2], idx.rest)
            ELSE DeOk(JNull, idx.rest)
      [] ty[1] = "array" ->
            LET len == deserialize_primitive("U64", s) IN
            IF ~len.ok THEN DePanic
            ELSE DeElements(config, ty[2], len.val[2], len.rest, <<>>)

-----------------------------------------------------------------------------
\* The schema of the model: the messages of the codec's own tests
\* (Inner, Request, Response), of the rust_complex example (Shirt*, Size) and
\* one message that uses the remaining primitives.
Messages ==
    [ Inner |-> <<Field(<<"inner">>, Primitive("U32"))>>,
      Request |-> <<Field(<<"n">>, Primitive("U64")),
                    Field(<<"x">>, Option(Message("Inner"))),
                    Field(<<"y">>, Array(Primitive("I32")))>>,
      Response |-> <<Field(<<"n">>, Primitive("U64"))>>,
      ShirtInner |-> <<Field(<<"color">>, Enum("Size"))>>,
      ShirtRequest |-> <<Field(<<"inner">>, Option(Message("ShirtInner")))>>,
      ShirtResponse |-> <<Field(<<"color">>, Enum("Size"))>>,
      Empty |-> <<>>,
      Tagged |-> <<Field(<<Felt252Prefix, Felt252Prefix, "id">>, Primitive("U32"))>>,
      Profile |-> <<Field(<<Felt252Prefix, "id">>, Primitive("FELT252")),
                    Field(<<"name">>, Primitive("BYTEARRAY")),
                    Field(<<"ok">>, Primitive("BOOL")),
                    Field(<<"delta">>, Primitive("I64"))>> ]

Enums == [ Size |-> <<[name |-> "Small", nb |-> 0], [name |-> "Medium", nb |-> 1],
                      [name |-> "Large", nb |-> 2]>> ]

Schema == [ messages |-> Messages, enums |-> Enums ]

-----------------------------------------------------------------------------
\* Inputs of the codec harness.
MaxArrayLen == 2
MaxFelts == 3

PrimitiveTypes == {"U64", "U32", "I32", "I64", "BOOL", "FELT252", "BYTEARRAY"}

CodecTypes ==
    { Primitive(p) : p \in PrimitiveTypes }
      \cup { Message("Request"), Message("Response"), Message("ShirtRequest"),
             Message("Profile"), Message("Tagged"), Message("Missing"), Enum("Size"),
             Option(Primitive("U32")), Option(Primitive("BYTEARRAY")),
             Array(Primitive("I32")), Array(Primitive("FELT252")),
             Array(Message("Inner")) }

\* Sample strings: byte strings for BYTEARRAY (every length up to two words and
\* one byte, a leading NUL inside a word, a two-byte character that straddles a
\* word boundary) and texts for FELT252.
RECURSIVE AsciiString(_)
AsciiString(n) == IF n = 0 THEN <<>> ELSE Append(AsciiString(n - 1), ChOther + (n % 2))
ByteStrings ==
    { AsciiString(n) : n \in 0..(2 * BytesPerWord + 1) }
      \cup { <<ChNul, ChOther>>, <<ChNul, ChNul, ChOther>>,
             AsciiString(BytesPerWord - 1) \o <<Lead2Start, AsciiLimit>> }
FeltTexts ==
    { <<ChZero, ChX, ChZero>>,                      \* "0x0"
      <<ChZero, ChX, ChZero, ChUpperA>>,            \* "0x0A"
      <<ChZero, ChX, ChLowerA + 5, ChLowerA + 5>>,  \* "0xff"
      <<ChZero + 1, ChZero>>,                       \* "10"
      <<ChZero>> }                                  \* "0"

IntSamples(lo, hi) == { lo, hi, 0, 1, 0 - 1 } \cap lo..hi

RECURSIVE ValuesOf(_)
RECURSIVE ObjectsOf(_, _)
RECURSIVE ArraysOf(_, _)
\* The JSON values that conform to a type (samples of each primitive).
ValuesOf(ty) ==
    CASE ty[1] = "primitive" ->
            (CASE ty[2] = "U32" -> { JNum(n) : n \in IntSamples(0, U32Max) }
               [] ty[2] = "U64" -> { JNum(n) : n \in IntSamples(0, U64Max) }
               [] ty[2] = "I32" -> { JNum(n) : n \in IntSamples(I32Min, I32Max) }
               [] ty[2] = "I64" -> { JNum(n) : n \in IntSamples(I64Min, I64Max) }
               [] ty[2] = "BOOL" -> { JBool(TRUE), JBool(FALSE) }
               [] ty[2] = "FELT252" -> { JStr(t) : t \in FeltTexts }
               [] ty[2] = "BYTEARRAY" -> { JStr(b) : b \in ByteStrings })
      [] ty[1] = "message" ->
            IF ty[2] \in DOMAIN Messages THEN { JObj(m) : m \in ObjectsOf(Messages[ty[2]], 1) }
            ELSE {}
      [] ty[1] = "enum" -> { JNum(Enums[ty[2]][i].nb) : i \in 1..Len(Enums[ty[2]]) }
      [] ty[1] = "option" -> { JNull } \cup ValuesOf(ty[2])
      [] ty[1] = "array" -> { JArr(a) : a \in ArraysOf(ty[2], MaxArrayLen) }
ObjectsOf(fields, i) ==
    IF i > Len(fields) THEN { EmptyMap }
    ELSE { MapInsert(m, fields[i].name, v) :
             m \in ObjectsOf(fields, i + 1), v \in ValuesOf(fields[i].ty) }
ArraysOf(ty, n) ==
    IF n = 0 THEN { <<>> }
    ELSE ArraysOf(ty, n - 1)
           \cup { Append(a, v) : a \in { x \in ArraysOf(ty, n - 1) : Len(x) = n - 1 },
                                 v \in ValuesOf(ty) }

\* JSON values that do not conform: a wrong kind, an integer out of the range
\* of the type, an object with a field missing or with the fallback key.
IllTyped(ty) ==
    { JNum(U64Max + 1), JNum(U32Max + 1), JNum(I64Min - 1), JNum(0 - 1), JNull, JBool(TRUE),
      JStr(<<ChOther>>), JArr(<<JBool(TRUE)>>), JObj(EmptyMap),
      JObj((<<"id">> :> JStr(<<ChZero + 7>>)) @@ (<<"name">> :> JStr(<<>>))
             @@ (<<"ok">> :> JBool(TRUE)) @@ (<<"delta">> :> JNum(0))),
      JObj((<<"n">> :> JNum(1)) @@ (<<"extra">> :> JNull)),
      JObj(<<Felt252Prefix, "id">> :> JNum(1)), JObj(<<"id">> :> JNum(1)) }
      \ ValuesOf(ty)

FeltSamples == { 0, 1, 2, BytesPerWord, FeltBytes, U32Max + 1,
                 from_bytes_be_slice(<<ChOther, ChOther + 1>>),
                 from_bytes_be_slice(<<Lead2Start, ChOther>>),
                 FeltPrime - 1 }
\* Longer sequences: a byte array of one full word, a Request with its
\* option and array populated, a felt left over after a Response.
LongFeltSeqs ==
    { <<1, from_bytes_be_slice(AsciiString(BytesPerWord)), 0, 0>>,
      <<1, from_bytes_be_slice(AsciiString(BytesPerWord)), ChOther, 1>>,
      <<4, 0, 3, 1, 2>>, <<4, 0, 3, 2, 1, FeltPrime - 1>>, <<0, 1, 1, 1>> }
RECURSIVE FeltSeqs(_)
FeltSeqs(n) ==
    IF n = 0 THEN { <<>> }
    ELSE FeltSeqs(n - 1)
           \cup { Append(a, f) : a \in { x \in FeltSeqs(n - 1) : Len(x) = n - 1 },
                                 f \in FeltSamples }

-----------------------------------------------------------------------------
\* Services of the schema, in the key order of the BTreeMap, and the methods
\* of each (selector -> MethodDeclaration).
MethodDeclaration(i, o) == [input |-> i, output |-> o]
Services ==
    << [name |-> "EchoOracle",
        methods |-> [echo |-> MethodDeclaration(Message("Response"), Message("Request")),
                     ping |-> MethodDeclaration(Message("Empty"), Message("Empty"))]],
       [name |-> "ShirtOracle",
        methods |-> [shirt |-> MethodDeclaration(Message("ShirtRequest"), Message("ShirtResponse"))]],
       [name |-> "SqrtOracle",
        methods |-> [sqrt |-> MethodDeclaration(Message("Request"), Message("Response")),
                     orphan |-> MethodDeclaration(Message("Response"), Message("Response")),
                     badurl |-> MethodDeclaration(Message("Response"), Message("Response")),
                     nobase |-> MethodDeclaration(Message("Response"), Message("Response"))]] >>

\* A lookup that finds every selector.
AnyMethod(selector) == TRUE
\* configuration.services.iter().find_map(|(_, methods)| methods.methods.get(selector))
ServicesWith(selector) == { i \in 1..Len(Services) : selector \in DOMAIN Services[i].methods }
HasMethod(selector) == ServicesWith(selector) # {}
FindMethod(selector) ==
    Services[CHOOSE i \in ServicesWith(selector) : \A j \in ServicesWith(selector) : i <= j]
        .methods[selector]

\* configuration::PollingConfig and ServerConfig.  url is what Url::parse makes
\* of server_url: "ok", "invalid" (parse error) or "nobase" (cannot be a base).
PollingConfig(ma, pi, rt, ot) ==
    [max_attempts |-> ma, polling_interval |-> pi, request_timeout |-> rt, overall_timeout |-> ot]
DefaultMaxAttempts == 30
DefaultPollingInterval == 2
DefaultRequestTimeout == 10
DefaultOverallTimeout == 60
default_polling_config ==
    PollingConfig(DefaultMaxAttempts, DefaultPollingInterval, DefaultRequestTimeout,
                  DefaultOverallTimeout)
\* polling: "None" | "true" | "false"; polling_config: [some, cfg]
ServerConfig(url, polling, has_cfg, cfg) ==
    [url |-> url, polling |-> polling, polling_config |-> [some |-> has_cfg, cfg |-> cfg]]
\* Url::parse(server_url).path_segments(): "ok" is a URL without a path
\* ("http://host:3000", path "/", one empty segment), "ok_prefix" one with
\* the path "/api", "ok_slash" one with the path "/api/".
Seg(s) == <<"seg", s>>
IdSeg(job_id) == <<"id", job_id>>
url_path(server_url) ==
    CASE server_url = "ok_prefix" -> <<Seg("api")>>
      [] server_url = "ok_slash" -> <<Seg("api"), Seg("")>>
      [] OTHER -> <<Seg("")>>
ServerUrls == {"ok", "ok_prefix", "ok_slash"}
\* path_segments_mut().push(segment): a lone empty segment (the path "/") is
\* replaced, otherwise the segment is appended after a "/".
path_push(path, segment) == IF path = <<Seg("")>> THEN <<segment>> ELSE Append(path, segment)
\* A join that appends to the base path instead of resolving against it.
url_append_status(path, job_id) == path \o <<Seg("status"), IdSeg(job_id)>>
\* server_url.join("status/<job_id>"): the relative reference replaces the
\* last segment of the base path.
url_join_status(path, job_id) ==
    SubSeq(path, 1, Len(path) - 1) \o <<Seg("status"), IdSeg(job_id)>>

ServersConfigAt(url, has_cfg, cfg) ==
    [ sqrt |-> ServerConfig("ok", "None", FALSE, default_polling_config),
      echo |-> ServerConfig("ok_prefix", "false", FALSE, default_polling_config),
      ping |-> ServerConfig("ok_slash", "None", FALSE, default_polling_config),
      shirt |-> ServerConfig(url, "true", has_cfg, cfg),
      badurl |-> ServerConfig("invalid", "None", FALSE, default_polling_config),
      nobase |-> ServerConfig("nobase", "None", FALSE, default_polling_config) ]
ServersConfig(has_cfg, cfg) == ServersConfigAt("ok", has_cfg, cfg)

-----------------------------------------------------------------------------
\* VM memory.  A cell is <<segment, offset>>; a value is an integer (felt) or
\* a relocatable.
IntVal(f) == <<"int", f>>
RelVal(p) == <<"rel", p[1], p[2]>>
IsSet(m, c) == c \in DOMAIN m
ExecutionSegment == 1

\* VirtualMachine::insert_value.  Memory is write-once: writing the value a
\* cell already holds is accepted, any other value is InconsistentMemory.
InsertOk(m, c, v) == ~IsSet(m, c) \/ m[c] = v
Insert(m, c, v) == [x \in (DOMAIN m) \cup {c} |-> IF x = c THEN v ELSE m[x]]

\* VirtualMachine::add_memory_segment: the new segment's index is the number
\* of segments so far.
add_memory_segment(nseg) == [ptr |-> <<nseg, 0>>, num_segments |-> nseg + 1]

\* A segment already in use handed out again (the previous one).
reuse_segment(nseg) == [ptr |-> <<nseg - 1, 0>>, num_segments |-> nseg]
\* MemBuffer::new_segment: a buffer at the start of a newly added segment.
new_segment(nseg) == add_memory_segment(nseg)

\* extract_relocatable: the operand is a cell that must hold a relocatable.
extract_relocatable(m, c) ==
    IF IsSet(m, c) /\ m[c][1] = "rel"
    THEN [ok |-> TRUE, ptr |-> <<m[c][2], m[c][3]>>]
    ELSE [ok |-> FALSE, ptr |-> <<0, 0>>]

\* vm_get_range: reads integers from start until the pointer equals end.
RECURSIVE vm_get_range(_, _, _)
vm_get_range(m, p, end) ==
    IF p = end THEN [ok |-> TRUE, values |-> <<>>]
    ELSE IF ~IsSet(m, p) \/ m[p][1] # "int" THEN [ok |-> FALSE, values |-> <<>>]
    ELSE LET t == vm_get_range(m, <<p[1], p[2] + 1>>, end) IN
         IF t.ok THEN [ok |-> TRUE, values |-> <<m[p][2]>> \o t.values] ELSE t

\* A write that leaves ptr where it was.
MemBufferWriteInPlace(m, ptr, value) ==
    [ok |-> TRUE, mem |-> Insert(m, ptr, IntVal(value)), ptr |-> ptr]
\* MemBuffer::write: writes at ptr and advances ptr by one.
MemBufferWrite(m, ptr, value) ==
    [ok |-> InsertOk(m, ptr, IntVal(value)),
     mem |-> IF InsertOk(m, ptr, IntVal(value)) THEN Insert(m, ptr, IntVal(value)) ELSE m,
     ptr |-> <<ptr[1], ptr[2] + 1>>]

\* MemBuffer::write_data: writes the values in order, stops at the first error.
RECURSIVE write_data(_, _, _)
write_data(m, ptr, data) ==
    IF Len(data) = 0 THEN [ok |-> TRUE, mem |-> m, ptr |-> ptr]
    ELSE LET w == MemBufferWrite(m, ptr, data[1]) IN
         IF ~w.ok THEN w ELSE write_data(w.mem, w.ptr, Tail(data))

-----------------------------------------------------------------------------
\* HTTP.  A reply is the outcome of send() and text(): a transport error, or a
\* status code and a body; a body is JSON text or not.
HttpError == [net |-> "error", status |-> 0, json |-> FALSE, body |-> JNull]
Reply(status, v) == [net |-> "ok", status |-> status, json |-> TRUE, body |-> v]
Garbage(status) == [net |-> "ok", status |-> status, json |-> FALSE, body |-> JNull]
Request2(method, sel, path) == [method |-> method, selector |-> sel, path |-> path]

\* Value::get(key): Some only on an object that has the key.
JHas(v, k) == is_object(v) /\ <<k>> \in DOMAIN v[2]
JGet(v, k) == v[2][<<k>>]

\* Protocol strings in the scaled alphabet.
StrCompleted == <<ChLowerA + 2, ChOther>>
StrProcessing == <<ChOther + 1, ChOther>>
StrJobId == <<ChLowerA, ChLowerA + 1, ChLowerA + 2>>

\* The hint block at hand (hint_data): the operands of its Cheatcode hint,
\* the other hints before (pre) and after it (post), the memory on entry of
\* execute_hint, and the list positions handed to the inner processor so far.
NoHint == [kind |-> "none", selector |-> [utf8 |-> TRUE, name |-> ""], input_start |-> <<0, 0>>,
           input_end |-> <<0, 0>>, output_start |-> <<0, 0>>, output_end |-> <<0, 0>>,
           pre |-> <<>>, post |-> <<>>, mem0 |-> <<>>, inner_calls |-> <<>>]

\* A hint other than Cheatcode: it writes one cell, or fails.
CoreHint(pos, fails, dst) == [pos |-> pos, fails |-> fails, dst |-> dst, value |-> pos]
\* self.inner_processor.execute(vm, exec_scopes, hint)
inner_execute(m, h) ==
    IF h.fails \/ ~InsertOk(m, h.dst, IntVal(h.value)) THEN [ok |-> FALSE, mem |-> m]
    ELSE [ok |-> TRUE, mem |-> Insert(m, h.dst, IntVal(h.value))]

\* A loop that goes on after a failed hint.
RECURSIVE RunCoreHintsPastErrors(_, _, _)
RunCoreHintsPastErrors(m, hints, calls) ==
    IF Len(hints) = 0 THEN [ok |-> TRUE, mem |-> m, calls |-> calls]
    ELSE RunCoreHintsPastErrors(inner_execute(m, hints[1]).mem, Tail(hints),
                                Append(calls, hints[1].pos))
\* for hint in hints { ... self.inner_processor.execute(vm, exec_scopes, hint)?; }
\* over a run of hints other than Cheatcode.
RECURSIVE RunCoreHints(_, _, _)
RunCoreHints(m, hints, calls) ==
    IF Len(hints) = 0 THEN [ok |-> TRUE, mem |-> m, calls |-> calls]
    ELSE LET r == inner_execute(m, hints[1]) IN
         IF ~r.ok THEN [ok |-> FALSE, mem |-> r.mem, calls |-> Append(calls, hints[1].pos)]
         ELSE RunCoreHints(r.mem, Tail(hints), Append(calls, hints[1].pos))
NoCc == [selector |-> "", input |-> <<>>, output |-> <<>>, polling |-> FALSE,
         polling_config |-> default_polling_config, inputs |-> <<>>, unread |-> 0,
         res_segment_ptr |-> <<0, 0>>, res_segment_start |-> <<0, 0>>,
         data |-> JNull, attempt |-> 0, job_id |-> <<>>, response |-> HttpError,
         server_url |-> <<>>]

\* execute_cheatcode up to and including the send of the POST (lines 58-148
\* in polling mode, 58-273 in synchronous mode).  outcome is "sent", an error
\* or "panic"; unread is the number of input felts the deserialiser left.
CheatcodeStart(m, nseg, cfgs, h) ==
    IF ~h.selector.utf8 THEN [outcome |-> "err_selector", num_segments |-> nseg, cc |-> NoCc]
    ELSE
    LET selector == h.selector.name
        input_start == extract_relocatable(m, h.input_start)
        input_end == extract_relocatable(m, h.input_end)
        inputs == vm_get_range(m, input_start.ptr, input_end.ptr)
    IN
    IF ~input_start.ok \/ ~input_end.ok \/ ~inputs.ok
    THEN [outcome |-> "err_memory", num_segments |-> nseg, cc |-> NoCc]
    ELSE
    LET res_segment == new_segment(nseg)
        c0 == [NoCc EXCEPT !.selector = selector, !.inputs = inputs.values,
                           !.res_segment_ptr = res_segment.ptr,
                           !.res_segment_start = res_segment.ptr]
        Ret(o, c) == [outcome |-> o, num_segments |-> res_segment.num_segments, cc |-> c]
    IN
    IF ~HasMethod(selector) THEN Ret("err_unknown_selector", c0)
    ELSE IF selector \notin DOMAIN cfgs THEN Ret("err_no_server", c0)
    ELSE
    LET configuration == FindMethod(selector)
        server_config == cfgs[selector]
        c1 == [c0 EXCEPT !.input = configuration.input, !.output = configuration.output]
    IN
    IF server_config.url = "invalid" THEN Ret("err_url", c1)
    ELSE IF server_config.url = "nobase" THEN Ret("panic", c1)
    ELSE
    LET data == deserialize_cairo_serde(Schema, configuration.input, inputs.values)
        server_url == path_push(url_path(server_config.url), Seg(selector))
    IN
    IF ~data.ok THEN Ret("panic", c1)
    ELSE
    LET use_polling == server_config.polling = "true"
        polling_config == IF server_config.polling_config.some
                          THEN server_config.polling_config.cfg
                          ELSE default_polling_config
    IN Ret("sent", [c1 EXCEPT !.data = data.val, !.unread = Len(data.rest),
                              !.polling = use_polling, !.polling_config = polling_config,
                              !.server_url = server_url])

\* The end of execute_cheatcode once the response value is at hand (lines
\* 223-252 and 296-316): serialise, write the result segment, set both
\* output cells.
CheatcodeFinish(m, c, h, output) ==
    LET data == serialize_cairo_serde(Schema, c.output, output) IN
    IF ~data.ok THEN [outcome |-> "panic", mem |-> m]
    ELSE
    LET w == write_data(m, c.res_segment_ptr, data.felts) IN
    IF ~w.ok THEN [outcome |-> "err_write", mem |-> w.mem]
    ELSE
    LET res_segment_end == w.ptr IN
    IF ~InsertOk(w.mem, h.output_start, RelVal(c.res_segment_start))
    THEN [outcome |-> "err_output_start", mem |-> w.mem]
    ELSE
    LET m2 == Insert(w.mem, h.output_start, RelVal(c.res_segment_start)) IN
    IF ~InsertOk(m2, h.output_end, RelVal(res_segment_end))
    THEN [outcome |-> "err_output_end", mem |-> m2]
    ELSE [outcome |-> "ok", mem |-> Insert(m2, h.output_end, RelVal(res_segment_end))]

\* Synchronous mode after send() (lines 262-317).  The status code is not read.
SyncFinish(m, c, h, reply) ==
    IF reply.net = "error" THEN [outcome |-> "err_send", mem |-> m]
    ELSE IF ~reply.json THEN [outcome |-> "err_json", mem |-> m]
    ELSE IF ~is_object(reply.body) THEN [outcome |-> "err_not_object", mem |-> m]
    ELSE CheatcodeFinish(m, c, h, reply.body)

\* Polling mode after the send of the initial POST (lines 138-170).
PostFinish(reply) ==
    IF reply.net = "error" THEN [outcome |-> "err_send", job_id |-> <<>>]
    ELSE IF ~reply.json THEN [outcome |-> "err_json", job_id |-> <<>>]
    ELSE IF ~(JHas(reply.body, "jobId") /\ as_str_ok(JGet(reply.body, "jobId")))
         THEN [outcome |-> "err_job_id", job_id |-> <<>>]
    ELSE [outcome |-> "loop", job_id |-> JGet(reply.body, "jobId")[2]]

\* Termination checks that are off by one attempt, or blind to the clock.
PollingTimedOutLate(c, el) ==
    c.attempt > c.polling_config.max_attempts \/ el > c.polling_config.overall_timeout
PollingTimedOutNoClock(c, el) == c.attempt >= c.polling_config.max_attempts
\* if attempt >= max_attempts || start_time.elapsed() > overall_timeout
PollingTimedOut(c, el) ==
    c.attempt >= c.polling_config.max_attempts \/ el > c.polling_config.overall_timeout

\* A status handler that takes the result of a reply whatever its status.
StatusFinishAnyStatus(m, c, h, reply) ==
    IF reply.net = "error" THEN [outcome |-> "err_status_send", mem |-> m]
    ELSE IF ~reply.json THEN [outcome |-> "err_status_json", mem |-> m]
    ELSE IF JHas(reply.body, "result") THEN CheatcodeFinish(m, c, h, JGet(reply.body, "result"))
    ELSE [outcome |-> "sleep", mem |-> m]
\* One pass of the polling loop after the send of the status GET (lines
\* 191-259): outcome "sleep" stands for sleep(polling_interval); attempt += 1.
StatusFinish(m, c, h, reply) ==
    IF reply.net = "error" THEN [outcome |-> "err_status_send", mem |-> m]
    ELSE IF ~reply.json THEN [outcome |-> "err_status_json", mem |-> m]
    ELSE IF JHas(reply.body, "status") /\ as_str_ok(JGet(reply.body, "status"))
            /\ JGet(reply.body, "status")[2] = StrCompleted
            /\ JHas(reply.body, "result")
         THEN CheatcodeFinish(m, c, h, JGet(reply.body, "result"))
    ELSE [outcome |-> "sleep", mem |-> m]

-----------------------------------------------------------------------------
\* The environment: the Cairo program and the oracle servers.
MaxInvocations == 2
MaxAttemptsChoice == 2
MaxIntervalChoice == 2
MaxRequestTimeoutChoice == 2
MaxOverallChoice == 3

Selector(n) == [utf8 |-> TRUE, name |-> n]
InvalidSelector == [utf8 |-> FALSE, name |-> ""]
Selectors == { Selector(n) : n \in {"sqrt", "echo", "ping", "shirt", "orphan", "badurl",
                                    "nobase", "nope"} } \cup { InvalidSelector }

\* Input spans the program passes: well-formed ones, one with a felt left
\* over, one too short, one with an integer out of range.
InputsFor(sel) ==
    CASE sel.name = "sqrt" -> { <<4, 1, 0>>, <<4, 0, 3, 1, 2>>, <<4, 1, 0, 9>>, <<4>>,
                               <<FeltPrime - 1, 1, 0>> }
      [] sel.name = "echo" -> { <<1>>, <<1, 1>> }
      [] sel.name = "ping" -> { <<>>, <<7>> }
      [] sel.name = "shirt" -> { <<0, 2>>, <<1>>, <<1, 5>>, <<>> }
      [] OTHER -> { <<1>> }

Obj1(k, v) == JObj(<<k>> :> v)
GoodOutputs(sel) ==
    CASE sel = "echo" -> { JObj((<<"n">> :> JNum(1)) @@ (<<"x">> :> JNull) @@ (<<"y">> :> JArr(<<>>))),
                           JObj((<<"n">> :> JNum(2)) @@ (<<"x">> :> Obj1("inner", JNum(3)))
                                  @@ (<<"y">> :> JArr(<<JNum(1)>>))) }
      [] sel = "ping" -> { JObj(EmptyMap) }
      [] sel = "shirt" -> { Obj1("color", JNum(2)) }
      [] OTHER -> { Obj1("n", JNum(5)) }
\* Bodies that are JSON but not what the output type asks for: not an
\* object, the value wrapped under "result", a field of the wrong kind.
BadOutputs(sel) ==
    { JNum(5), JArr(<<>>), Obj1("n", JStr(<<ChOther>>)) }
      \cup { Obj1("result", v) : v \in GoodOutputs(sel) }

SyncReplies(sel) ==
    { HttpError, Garbage(200), Garbage(500) }
      \cup { Reply(st, v) : st \in {200, 500}, v \in GoodOutputs(sel) \cup BadOutputs(sel) }
PostReplies ==
    { HttpError, Garbage(200), Reply(200, Obj1("jobId", JStr(StrJobId))),
      Reply(200, Obj1("jobId", JNum(5))), Reply(200, JObj(EmptyMap)) }
StatusReplies(sel) ==
    { HttpError, Garbage(200), Reply(200, JNum(1)),
      Reply(200, Obj1("status", JStr(StrProcessing))),
      Reply(200, Obj1("status", JStr(StrCompleted))) }
      \cup { Reply(200, JObj((<<"status">> :> JStr(StrCompleted)) @@ (<<"result">> :> v))) :
               v \in GoodOutputs(sel) \cup { JNum(5) } }
      \cup { Reply(200, JObj((<<"status">> :> JStr(StrProcessing)) @@ (<<"result">> :> v))) :
               v \in GoodOutputs(sel) }

HistoryEntry(c, h, m) ==
    [start |-> c.res_segment_start, output_start |-> h.output_start,
     output_end |-> h.output_end, end_value |-> m[h.output_end]]

\* The Cairo program runs up to its next cheat-code: it allocates the
\* argument array, writes the argument felts and the span pointers, and
\* reserves the two output cells.
RECURSIVE WriteInts(_, _, _, _)
WriteInts(m, seg, off, values) ==
    IF Len(values) = 0 THEN m
    ELSE WriteInts(Insert(m, <<seg, off>>, IntVal(values[1])), seg, off + 1, Tail(values))

\* The shapes of a run of hints other than Cheatcode: which of them fail.
MaxCoreHints == 2
RECURSIVE Shapes(_)
Shapes(n) ==
    IF n = 0 THEN { <<>> }
    ELSE Shapes(n - 1) \cup { Append(x, f) : x \in { y \in Shapes(n - 1) : Len(y) = n - 1 },
                                            f \in BOOLEAN }
MkCore(shape, first_pos, first_dst) ==
    [i \in 1..Len(shape) |->
        CoreHint(first_pos + i - 1, shape[i], <<ExecutionSegment, first_dst + i - 1>>)]

RunTo(pres, posts) ==
    /\ pc = "vm"
    /\ hintsLeft > 0
    /\ \E sel \in Selectors : \E inputs \in InputsFor(sel) : \E pre \in pres : \E post \in posts :
         LET arr == add_memory_segment(num_segments)
             m1 == WriteInts(mem, arr.ptr[1], 0, inputs)
             m2 == Insert(m1, <<ExecutionSegment, ap>>, RelVal(arr.ptr))
             m3 == Insert(m2, <<ExecutionSegment, ap + 1>>, RelVal(<<arr.ptr[1], Len(inputs)>>))
         IN /\ mem' = m3
            /\ num_segments' = arr.num_segments
            /\ hint' = [kind |-> "cheatcode",
                        selector |-> sel,
                        input_start |-> <<ExecutionSegment, ap>>,
                        input_end |-> <<ExecutionSegment, ap + 1>>,
                        output_start |-> <<ExecutionSegment, ap + 2>>,
                        output_end |-> <<ExecutionSegment, ap + 3>>,
                        pre |-> MkCore(pre, 1, ap + 4),
                        post |-> MkCore(post, Len(pre) + 2, ap + 4 + Len(pre)),
                        mem0 |-> m3,
                        inner_calls |-> <<>>]
            /\ ap' = ap + 4 + Len(pre) + Len(post)
    /\ hintsLeft' = hintsLeft - 1
    /\ pc' = "hint"
    /\ cc' = NoCc
    /\ elapsed' = 0
    /\ requests' = <<>>
    /\ returned' = "none"
    /\ UNCHANGED <<servers_config, history>>
    /\ UNCHANGED codecVars
    /\ UNCHANGED testVars
    /\ UNCHANGED toolVars

\* The program runs up to a block that holds one Cheatcode hint and nothing else.
RunToCheatcode == RunTo({ <<>> }, { <<>> })
\* The program runs up to a block with other hints around the Cheatcode hint.
RunToBlock == RunTo(Shapes(MaxCoreHints), Shapes(MaxCoreHints))

\* execute_hint on a block without a Cheatcode hint: every hint goes to the
\* inner processor, in order, up to the first error.
ExecuteCoreBlock ==
    /\ pc = "vm"
    /\ hintsLeft > 0
    /\ \E shape \in Shapes(MaxCoreHints) :
         LET hints == MkCore(shape, 1, ap)
             r == RunCoreHints(mem, hints, <<>>)
         IN /\ mem' = r.mem
            /\ hint' = [NoHint EXCEPT !.kind = "core", !.pre = hints, !.mem0 = mem,
                                      !.inner_calls = r.calls]
            /\ returned' = IF r.ok THEN "ok" ELSE "err_inner"
            /\ pc' = IF r.ok THEN "vm" ELSE "halted"
            /\ ap' = ap + Len(shape)
    /\ hintsLeft' = hintsLeft - 1
    /\ cc' = NoCc
    /\ elapsed' = 0
    /\ requests' = <<>>
    /\ UNCHANGED <<num_segments, servers_config, history>>
    /\ UNCHANGED codecVars
    /\ UNCHANGED testVars
    /\ UNCHANGED toolVars

\* The hints after the Cheatcode hint, once execute_cheatcode has returned r.
AfterCheatcode(r, h) ==
    IF r.outcome # "ok" THEN [outcome |-> r.outcome, mem |-> r.mem, calls |-> h.inner_calls]
    ELSE LET q == RunCoreHints(r.mem, h.post, h.inner_calls) IN
         [outcome |-> IF q.ok THEN "ok" ELSE "err_inner", mem |-> q.mem, calls |-> q.calls]

PcAfter(outcome) ==
    CASE outcome = "ok" -> "vm"
      [] outcome = "panic" -> "aborted"
      [] outcome = "sent" -> "sent"
      [] outcome = "loop" -> "loop"
      [] outcome = "sleep" -> "loop"
      [] OTHER -> "halted"
ResultAfter(outcome) == IF outcome \in {"sent", "loop", "sleep"} THEN "none" ELSE outcome

\* execute_hint: the hints before the Cheatcode hint go to the inner
\* processor, then execute_cheatcode runs up to its first HTTP call.
ExecuteCheatcode ==
    /\ pc = "hint"
    /\ LET p == RunCoreHints(mem, hint.pre, <<>>)
           r == IF p.ok THEN CheatcodeStart(p.mem, num_segments, servers_config, hint)
                ELSE [outcome |-> "err_inner", num_segments |-> num_segments, cc |-> NoCc]
       IN
         /\ mem' = p.mem
         /\ hint' = [hint EXCEPT !.inner_calls = p.calls]
         /\ num_segments' = r.num_segments
         /\ cc' = r.cc
         /\ pc' = IF r.outcome = "sent"
                  THEN (IF r.cc.polling THEN "await_post" ELSE "await_sync")
                  ELSE PcAfter(r.outcome)
         /\ returned' = ResultAfter(r.outcome)
         /\ requests' = IF r.outcome = "sent" THEN <<Request2("POST", r.cc.selector, r.cc.server_url)>> ELSE <<>>
    /\ elapsed' = 0
    /\ UNCHANGED <<ap, hintsLeft, servers_config, history>>
    /\ UNCHANGED codecVars
    /\ UNCHANGED testVars
    /\ UNCHANGED toolVars

\* Synchronous mode: the reply to the POST arrives and the handler returns.
SyncReply ==
    /\ pc = "await_sync"
    /\ \E reply \in SyncReplies(cc.selector) :
         LET r == SyncFinish(mem, cc, hint, reply)
             a == AfterCheatcode(r, hint)
         IN
           /\ mem' = a.mem
           /\ hint' = [hint EXCEPT !.inner_calls = a.calls]
           /\ pc' = PcAfter(a.outcome)
           /\ returned' = ResultAfter(a.outcome)
           /\ cc' = [cc EXCEPT !.response = reply]
           /\ history' = IF r.outcome = "ok"
                         THEN Append(history, HistoryEntry(cc, hint, r.mem)) ELSE history
    /\ UNCHANGED <<num_segments, ap, hintsLeft, servers_config, elapsed, requests>>
    /\ UNCHANGED codecVars
    /\ UNCHANGED testVars
    /\ UNCHANGED toolVars

\* Polling mode: the reply to the initial POST arrives after d seconds.
PostReply ==
    /\ pc = "await_post"
    /\ \E reply \in PostReplies : \E d \in 0..cc.polling_config.request_timeout :
         LET r == PostFinish(reply) IN
           /\ elapsed' = elapsed + d
           /\ pc' = PcAfter(r.outcome)
           /\ returned' = ResultAfter(r.outcome)
           /\ cc' = [cc EXCEPT !.job_id = r.job_id, !.attempt = 0]
    /\ UNCHANGED <<mem, num_segments, ap, hintsLeft, servers_config, hint, requests, history>>
    /\ UNCHANGED codecVars
    /\ UNCHANGED testVars
    /\ UNCHANGED toolVars

\* The head of the polling loop: the termination check, then the status GET.
PollCheck ==
    /\ pc = "loop"
    /\ IF PollingTimedOut(cc, elapsed)
       THEN /\ pc' = "halted"
            /\ returned' = "err_polling_timeout"
            /\ requests' = requests
       ELSE /\ pc' = "await_get"
            /\ returned' = returned
            /\ requests' = Append(requests, Request2("GET", cc.selector,
                                              url_join_status(cc.server_url, cc.job_id)))
    /\ UNCHANGED <<mem, num_segments, ap, hintsLeft, servers_config, hint, cc, elapsed, history>>
    /\ UNCHANGED codecVars
    /\ UNCHANGED testVars
    /\ UNCHANGED toolVars

\* The reply to a status GET arrives after d seconds; the handler returns, or
\* sleeps polling_interval and counts the attempt.
StatusReply ==
    /\ pc = "await_get"
    /\ \E reply \in StatusReplies(cc.selector) : \E d \in 0..cc.polling_config.request_timeout :
         LET r == StatusFinish(mem, cc, hint, reply)
             a == AfterCheatcode(r, hint)
         IN
           /\ mem' = a.mem
           /\ hint' = [hint EXCEPT !.inner_calls = a.calls]
           /\ pc' = PcAfter(a.outcome)
           /\ returned' = ResultAfter(a.outcome)
           /\ elapsed' = elapsed + d
                           + (IF r.outcome = "sleep" THEN cc.polling_config.polling_interval ELSE 0)
           /\ cc' = [cc EXCEPT !.attempt = IF r.outcome = "sleep" THEN @ + 1 ELSE @,
                               !.response = reply]
           /\ history' = IF r.outcome = "ok"
                         THEN Append(history, HistoryEntry(cc, hint, r.mem)) ELSE history
    /\ UNCHANGED <<num_segments, ap, hintsLeft, servers_config, requests>>
    /\ UNCHANGED codecVars
    /\ UNCHANGED testVars
    /\ UNCHANGED toolVars

NoSer == [ok |-> FALSE, felts |-> <<>>]
NoDe == [ok |-> FALSE, val |-> JNull, rest |-> <<>>]
EmptyMem == [c \in {} |-> IntVal(0)]
HpIdle(n, cfgs) ==
    /\ mem = EmptyMem
    /\ num_segments = 2
    /\ ap = 0
    /\ hintsLeft = n
    /\ servers_config = cfgs
    /\ pc = "vm"
    /\ hint = NoHint
    /\ cc = NoCc
    /\ elapsed = 0
    /\ requests = <<>>
    /\ returned = "none"
    /\ history = <<>>
CodecIdle ==
    /\ cPc = "idle"
    /\ cDir = "none"
    /\ cTy = Primitive("U64")
    /\ cJson = JNull
    /\ cFelts = <<>>
    /\ cSer = NoSer
    /\ cDe = NoDe

-----------------------------------------------------------------------------
\* The test runner (cairo-lang-hints-test-runner).

\* TestExpectation and PanicExpectation
ExpectSuccess == <<"Success">>
ExpectPanicsAny == <<"Panics", <<"Any">>>>
ExpectPanicsExact(expected) == <<"Panics", <<"Exact", expected>>>>
\* TestConfig, with the name it is listed under
TestCase(name, ignored, expectation) ==
    [name |-> name, ignored |-> ignored, expectation |-> expectation]
\* TestRunConfig
TestRunConfig(filter, include_ignored, ignored) ==
    [filter |-> filter, include_ignored |-> include_ignored, ignored |-> ignored]
\* The result of run_1
RunOk == <<"Ok">>
RunPanic(panic_data) == <<"RunPanic", panic_data>>
RunErr == <<"Err">>
\* TestStatus and RunResultValue
StatusSuccess == <<"Success">>
StatusFail(run_result) == <<"Fail", run_result>>
ResultPanic(panic_data) == <<"Panic", panic_data>>
RunnerPanic == <<"panic!">>

\* name.contains(&filter)
Contains(name, filter) ==
    \E i \in 1..(Len(name) - Len(filter) + 1) : SubSeq(name, i, i + Len(filter) - 1) = filter

filter_test_cases(named_tests, include_ignored, ignored, filter) ==
    LET mapped == [i \in 1..Len(named_tests) |->
                     IF include_ignored THEN [named_tests[i] EXCEPT !.ignored = FALSE]
                     ELSE named_tests[i]]
        kept == SelectSeq(mapped, LAMBDA t : Contains(t.name, filter) /\ (~ignored \/ t.ignored))
    IN [named_tests |-> kept, filtered_out |-> Len(named_tests) - Len(kept)]

\* Both sides are compared as lists of integers (to_biguint).
is_equal_vec_felt(a, b) == a # b

\* The status run_tests gives a test from the result of its run.
test_status(r, expectation) ==
    CASE r = RunOk ->
           IF expectation = ExpectSuccess THEN StatusSuccess
           ELSE StatusFail(ResultPanic(<<0>>))
      [] r[1] = "RunPanic" ->
           IF expectation = ExpectSuccess THEN StatusFail(ResultPanic(r[2]))
           ELSE IF expectation[2][1] = "Exact" /\ ~is_equal_vec_felt(r[2], expectation[2][2])
                THEN StatusFail(ResultPanic(r[2]))
           ELSE StatusSuccess
      [] OTHER -> RunnerPanic

EmptySummary == [passed |-> <<>>, failed |-> <<>>, ignored |-> <<>>, failed_run_results |-> <<>>]
\* The for_each closure of run_tests; status NoStatus is the None of an ignored test.
NoStatus == <<"None">>
\* A closure that puts the run result of a failed test in front of the list.
record_result_in_front(summary, name, status) ==
    CASE status = StatusSuccess -> [summary EXCEPT !.passed = Append(@, name)]
      [] status = NoStatus -> [summary EXCEPT !.ignored = Append(@, name)]
      [] OTHER -> [summary EXCEPT !.failed = Append(@, name),
                                  !.failed_run_results = <<status[2]>> \o @]
record_result(summary, name, status) ==
    CASE status = StatusSuccess -> [summary EXCEPT !.passed = Append(@, name)]
      [] status = NoStatus -> [summary EXCEPT !.ignored = Append(@, name)]
      [] OTHER -> [summary EXCEPT !.failed = Append(@, name),
                                  !.failed_run_results = Append(@, status[2])]

MaxTests == 2
TestName(i) == <<0, i>>
Filters == { <<>>, <<0, 1>>, <<1, 0>> }
ExpectedData == { <<1, 2>> }
PanicData == { <<1, 2>>, <<1>>, <<2, 1>> }
Expectations == { ExpectSuccess, ExpectPanicsAny } \cup { ExpectPanicsExact(e) : e \in ExpectedData }
RunResults == { RunOk, RunErr } \cup { RunPanic(d) : d \in PanicData }
CompiledTests ==
    UNION { { [i \in 1..n |-> TestCase(TestName(i), f[i][1], f[i][2])] :
                f \in [1..n -> BOOLEAN \X Expectations] } : n \in 0..MaxTests }
TestRunConfigs ==
    { TestRunConfig(f, ii, ig) : f \in Filters, ii \in BOOLEAN, ig \in BOOLEAN }

\* CompiledTestRunner::run, up to run_tests
FilterTests ==
    /\ tPc = "compiled"
    /\ LET r == filter_test_cases(tCompiled, tConfig.include_ignored, tConfig.ignored,
                                  tConfig.filter) IN
         /\ tNamed' = r.named_tests
         /\ tFilteredOut' = r.filtered_out
         /\ tPending' = 1..Len(r.named_tests)
    /\ tPc' = "running"
    /\ UNCHANGED <<tConfig, tCompiled, tSummary, tRuns>>
    /\ UNCHANGED hpVars
    /\ UNCHANGED codecVars
    /\ UNCHANGED toolVars

\* run_tests on one test, in whatever order the parallel iterator takes them
RunTest ==
    /\ tPc = "running"
    /\ \E i \in tPending : \E r \in RunResults :
         LET test == tNamed[i]
             status == IF test.ignored THEN NoStatus ELSE test_status(r, test.expectation)
         IN /\ test.ignored => r = RunOk
            /\ tRuns' = IF test.ignored THEN tRuns
                        ELSE Append(tRuns, [name |-> test.name, result |-> r])
            /\ tPc' = IF status = RunnerPanic THEN "aborted" ELSE "running"
            /\ tSummary' = IF status = RunnerPanic THEN tSummary
                           ELSE record_result(tSummary, test.name, status)
            /\ tPending' = tPending \ {i}
    /\ UNCHANGED <<tConfig, tCompiled, tNamed, tFilteredOut>>
    /\ UNCHANGED hpVars
    /\ UNCHANGED codecVars
    /\ UNCHANGED toolVars

\* CompiledTestRunner::run, after run_tests: Ok(None), or bail! on failures
ReportTests ==
    /\ tPc = "running"
    /\ tPending = {}
    /\ tPc' = IF Len(tSummary.failed) = 0 THEN "passed" ELSE "failed"
    /\ UNCHANGED <<tConfig, tCompiled, tNamed, tFilteredOut, tPending, tSummary, tRuns>>
    /\ UNCHANGED hpVars
    /\ UNCHANGED codecVars
    /\ UNCHANGED toolVars

ToolIdle ==
    /\ uPc = "idle"
    /\ uIn = <<>>
    /\ uSt = <<>>
TestIdle ==
    /\ tPc = "idle"
    /\ tConfig = TestRunConfig(<<>>, FALSE, FALSE)
    /\ tCompiled = <<>>
    /\ tNamed = <<>>
    /\ tFilteredOut = 0
    /\ tPending = {}
    /\ tSummary = EmptySummary
    /\ tRuns = <<>>

FixedPollingConfig == PollingConfig(2, 1, 1, 2)
PollingConfigs ==
    { PollingConfig(ma, pi, rt, ot) :
        ma \in 0..MaxAttemptsChoice, pi \in 0..MaxIntervalChoice,
        rt \in 0..MaxRequestTimeoutChoice, ot \in 0..MaxOverallChoice }

Init ==
    /\ \E url \in ServerUrls : HpIdle(MaxInvocations, ServersConfigAt(url, TRUE, FixedPollingConfig))
    /\ CodecIdle
    /\ TestIdle
    /\ ToolIdle
InitPoll ==
    /\ \/ \E cfg \in PollingConfigs : HpIdle(1, ServersConfig(TRUE, cfg))
       \/ HpIdle(1, ServersConfig(FALSE, default_polling_config))
    /\ CodecIdle
    /\ TestIdle
    /\ ToolIdle

Next == RunToCheatcode \/ ExecuteCheatcode \/ SyncReply \/ PostReply \/ PollCheck \/ StatusReply

vars == <<cPc, cDir, cTy, cJson, cFelts, cSer, cDe, mem, num_segments, ap, hintsLeft,
          servers_config, pc, hint, cc, elapsed, requests, returned, history,
         tPc, tConfig, tCompiled, tNamed, tFilteredOut, tPending, tSummary, tRuns,
         uPc, uIn, uSt>>
Spec == Init /\ [][Next]_vars

\* Blocks that mix the Cheatcode hint with other hints, or hold none.
InitBlock ==
    /\ HpIdle(1, ServersConfig(TRUE, FixedPollingConfig))
    /\ CodecIdle
    /\ TestIdle
    /\ ToolIdle
NextBlock ==
    RunToBlock \/ ExecuteCoreBlock \/ ExecuteCheatcode \/ SyncReply \/ PostReply \/ PollCheck
      \/ StatusReply
SpecBlock == InitBlock /\ [][NextBlock]_vars
SpecPoll == InitPoll /\ [][Next]_vars

\* The test runner on a compiled set of tests.
InitTest ==
    /\ HpIdle(0, ServersConfig(TRUE, FixedPollingConfig))
    /\ CodecIdle
    /\ tPc = "compiled"
    /\ tConfig \in TestRunConfigs
    /\ tCompiled \in CompiledTests
    /\ tNamed = <<>>
    /\ tFilteredOut = 0
    /\ tPending = {}
    /\ tSummary = EmptySummary
    /\ tRuns = <<>>
    /\ ToolIdle
NextTest == FilterTests \/ RunTest \/ ReportTests
SpecTest == InitTest /\ [][NextTest]_vars

-----------------------------------------------------------------------------
\* The codec harness: one application of the pure functions to drawn inputs.

InitCodec ==
    /\ HpIdle(0, ServersConfig(TRUE, FixedPollingConfig))
    /\ TestIdle
    /\ ToolIdle
    /\ cPc = "start"
    /\ cTy \in CodecTypes
    /\ \/ /\ cDir = "ser-de"
          /\ cJson \in ValuesOf(cTy) \cup IllTyped(cTy)
          /\ cFelts = <<>>
       \/ /\ cDir = "de-ser"
          /\ cJson = JNull
          /\ cFelts \in FeltSeqs(MaxFelts) \cup LongFeltSeqs
    /\ cSer = NoSer
    /\ cDe = NoDe

\* serialize_cairo_serde applied to the JSON value at hand.
CodecSerialize ==
    /\ \/ cPc = "start" /\ cDir = "ser-de"
       \/ cPc = "mid" /\ cDir = "de-ser" /\ cDe.ok
    /\ cSer' = serialize_cairo_serde(Schema, cTy, cJson)
    /\ cFelts' = IF cDir = "ser-de" THEN cSer'.felts ELSE cFelts
    /\ cPc' = IF cDir = "ser-de" THEN "mid" ELSE "done"
    /\ UNCHANGED <<cDir, cTy, cJson, cDe>>
    /\ UNCHANGED hpVars
    /\ UNCHANGED testVars
    /\ UNCHANGED toolVars

\* deserialize_cairo_serde applied to the felts at hand.
CodecDeserialize ==
    /\ \/ cPc = "start" /\ cDir = "de-ser"
       \/ cPc = "mid" /\ cDir = "ser-de" /\ cSer.ok
    /\ cDe' = deserialize_cairo_serde(Schema, cTy, cFelts)
    /\ cJson' = IF cDir = "de-ser" THEN cDe'.val ELSE cJson
    /\ cPc' = IF cDir = "de-ser" THEN "mid" ELSE "done"
    /\ UNCHANGED <<cDir, cTy, cFelts, cSer>>
    /\ UNCHANGED hpVars
    /\ UNCHANGED testVars
    /\ UNCHANGED toolVars

NextCodec == CodecSerialize \/ CodecDeserialize

SpecCodec == InitCodec /\ [][NextCodec]_vars

-----------------------------------------------------------------------------
\* Canonical form of a conforming JSON value: FELT252 texts become lowercase
\* "0x" hexadecimal without leading zeros; everything else is kept.
RECURSIVE Canon(_, _)
Canon(ty, v) ==
    CASE ty[1] = "primitive" ->
            IF ty[2] = "FELT252"
            THEN JStr(<<ChZero, ChX>> \o to_str_radix16(
                        IF starts_with_0x(v[2]) THEN from_hex(v[2]) ELSE from_dec_str(v[2])))
            ELSE v
      [] ty[1] = "message" ->
            LET fields == Messages[ty[2]]
                TyOf(k) == (CHOOSE i \in 1..Len(fields) : fields[i].name = k)
            IN JObj([k \in DOMAIN v[2] |-> Canon(fields[TyOf(k)].ty, v[2][k])])
      [] ty[1] = "enum" -> v
      [] ty[1] = "option" -> IF is_null(v) THEN v ELSE Canon(ty[2], v)
      [] ty[1] = "array" -> JArr([i \in 1..Len(v[2]) |-> Canon(ty[2], v[2][i])])

Consumed == Len(cFelts) - Len(cDe.rest)

\* C1: round-trip law.  For a JSON value that conforms to its type,
\* serialisation succeeds, deserialising the result succeeds, returns the
\* canonical form of the value and consumes every felt.
C1_RoundTrip ==
    (cDir = "ser-de" /\ cJson \in ValuesOf(cTy)) =>
        /\ cPc # "start" => cSer.ok
        /\ cPc = "done" => (cDe.ok /\ cDe.val = Canon(cTy, cJson) /\ cDe.rest = <<>>)

\* C3: prefix law.  When a felt sequence deserialises to v after consuming k
\* felts, serialising v gives exactly the first k felts of the sequence.
C3_PrefixLaw ==
    (cDir = "de-ser" /\ cPc = "done") =>
        (cSer.ok /\ cSer.felts = SubSeq(cFelts, 1, Consumed))


SerApplied == cDir = "ser-de" /\ cPc # "start"
DeApplied == cDir = "de-ser" /\ cPc # "start"

\* C13: Option encoding.  Serialising Option(T) gives [1] for null and [0]
\* followed by serialize(T, v) for any other value; deserialising reads one
\* flag felt, returns the inner value (consuming its felts) when the flag is
\* 0, and null, consuming nothing more, when the flag is 1.
C13_OptionEncoding ==
    (cTy[1] = "option") =>
        /\ SerApplied =>
              IF is_null(cJson) THEN cSer.ok /\ cSer.felts = <<1>>
              ELSE LET inner == serialize_cairo_serde(Schema, cTy[2], cJson) IN
                   /\ cSer.ok = inner.ok
                   /\ inner.ok => cSer.felts = <<0>> \o inner.felts
        /\ (DeApplied /\ cFelts # <<>> /\ cFelts[1] = 0) =>
              LET inner == deserialize_cairo_serde(Schema, cTy[2], Tail(cFelts)) IN
              /\ cDe.ok = inner.ok
              /\ inner.ok => (cDe.val = inner.val /\ cDe.rest = inner.rest)
        /\ (DeApplied /\ cFelts # <<>> /\ cFelts[1] = 1) =>
              (cDe.ok /\ cDe.val = JNull /\ cDe.rest = Tail(cFelts))
C13_Witness ==
    /\ cTy = Option(Primitive("U32")) /\ cDir = "ser-de" /\ cPc = "done"
    /\ cJson = JNum(1) /\ cFelts = <<0, 1>>
    /\ cDe.ok /\ cDe.val = JNum(1)

RECURSIVE ElementFelts(_, _)
ElementFelts(ty, elems) ==
    IF Len(elems) = 0 THEN <<>>
    ELSE serialize_cairo_serde(Schema, ty, elems[1]).felts \o ElementFelts(ty, Tail(elems))
\* C14: Array encoding.  Serialising Array(T) on an array of n elements
\* gives the felt n followed by the serialisations of the elements in order,
\* a negative element x becoming P - |x|; deserialising that reads n and
\* then n elements in order and returns the original numbers (P - 2 under
\* I32 comes back as -2).
C14_ArrayEncoding ==
    (cTy[1] = "array" /\ cDir = "ser-de" /\ cJson \in ValuesOf(cTy)) =>
        /\ cPc # "start" =>
              /\ cSer.ok
              /\ cSer.felts = <<Len(cJson[2])>> \o ElementFelts(cTy[2], cJson[2])
              /\ cTy[2] = Primitive("I32") =>
                    \A i \in 1..Len(cJson[2]) :
                        cSer.felts[i + 1] = IF cJson[2][i][2] < 0 THEN FeltPrime + cJson[2][i][2]
                                            ELSE cJson[2][i][2]
        /\ cPc = "done" => (cDe.ok /\ cDe.val = Canon(cTy, cJson) /\ cDe.rest = <<>>)

\* Byte j (from 1) of the k low bytes of the number w, most significant first.
LowByte(w, k, j) == (w \div (ByteBase ^ (k - j))) % ByteBase
IsByteArrayRun == cTy = Primitive("BYTEARRAY")

\* C15: BYTEARRAY layout.  A string of n bytes serialises to (n div W) + 3
\* felts (W bytes per word, 31 in the code): num_full_words = n div W, the
\* full words, each packing W consecutive bytes big-endian, pending_word
\* holding the trailing n mod W bytes right-aligned, pending_len = n mod W;
\* when n mod W = 0 (n = 0 included) pending_word = 0 and pending_len = 0.
C15_ByteArrayLayout ==
    (IsByteArrayRun /\ SerApplied /\ as_str_ok(cJson)) =>
        LET b == cJson[2]
            n == Len(b)
            q == n \div BytesPerWord
            r == n % BytesPerWord
            f == cSer.felts
        IN /\ cSer.ok
           /\ Len(f) = q + 3
           /\ f[1] = q
           /\ \A k \in 1..q : \A j \in 1..BytesPerWord :
                 LowByte(f[k + 1], BytesPerWord, j) = b[(k - 1) * BytesPerWord + j]
           /\ \A k \in 1..q : f[k + 1] < WordModulus
           /\ f[q + 2] < ByteBase ^ r
           /\ \A j \in 1..r : LowByte(f[q + 2], r, j) = b[q * BytesPerWord + j]
           /\ f[q + 3] = r
           /\ r = 0 => (f[q + 2] = 0 /\ f[q + 3] = 0)
C15_Witness ==
    /\ IsByteArrayRun /\ SerApplied /\ cSer.ok
    /\ Len(cJson[2]) = 2 * BytesPerWord
    /\ cSer.felts[1] = 2 /\ Len(cSer.felts) = 5

\* C16: BYTEARRAY round trip.  Deserialising the serialisation of a valid
\* UTF-8 string returns the string (length 0, multiples of the word size and
\* leading NUL bytes included); whenever a byte array decodes, the string has
\* W * num_full_words + pending_len bytes, the last pending_len of them being
\* the low pending_len bytes of pending_word.
C16_ByteArrayRoundTrip ==
    /\ (IsByteArrayRun /\ cDir = "ser-de" /\ as_str_ok(cJson) /\ ValidUtf8(cJson[2])) =>
          /\ SerApplied => cSer.ok
          /\ cPc = "done" => (cDe.ok /\ cDe.val = cJson /\ cDe.rest = <<>>)
    /\ (IsByteArrayRun /\ DeApplied /\ cDe.ok) =>
          LET q == cFelts[1]
              pending_word == cFelts[q + 2]
              pending_len == cFelts[q + 3]
              str == cDe.val[2]
          IN /\ Len(str) = BytesPerWord * q + pending_len
             /\ \A j \in 1..pending_len :
                   str[BytesPerWord * q + j] = LowByte(pending_word, pending_len, j)
             /\ \A k \in 1..q : \A j \in 1..BytesPerWord :
                   str[(k - 1) * BytesPerWord + j] = LowByte(cFelts[k + 1], BytesPerWord, j)
C16_Witness ==
    /\ IsByteArrayRun /\ cDir = "ser-de" /\ cPc = "done"
    /\ cJson = JStr(<<ChNul, ChNul, ChOther>>)
    /\ cDe.ok /\ cDe.val = cJson

\* C17: BOOL decoding.  Deserialising a BOOL consumes exactly one felt and
\* succeeds iff that felt is 0 or 1, giving false for 0 and true for 1; on
\* every other felt the decoding fails.
C17_BoolDecoding ==
    (cTy = Primitive("BOOL") /\ DeApplied /\ cFelts # <<>>) =>
        /\ cDe.ok <=> cFelts[1] \in {0, 1}
        /\ cDe.ok => (cDe.val = JBool(cFelts[1] = 1) /\ cDe.rest = Tail(cFelts))
C17_Witness ==
    /\ cTy = Primitive("BOOL") /\ cDir = "de-ser" /\ cPc = "mid"
    /\ cFelts = <<2, 1>>
    /\ ~cDe.ok

-----------------------------------------------------------------------------
\* Properties of execute_cheatcode.

Handled == hint.kind = "cheatcode" /\ pc # "hint"
Returned == Handled /\ pc \in {"vm", "halted", "aborted"}
NumGets == Cardinality({ i \in 1..Len(requests) : requests[i].method = "GET" })
SegmentCells(s) == { c \in DOMAIN mem : c[1] = s }
OutputsUnset == ~IsSet(mem, hint.output_start) /\ ~IsSet(mem, hint.output_end)
Declared(sel) == \E i \in 1..Len(Services) : sel \in DOMAIN Services[i].methods
OutputType(sel) ==
    Services[CHOOSE i \in 1..Len(Services) : sel \in DOMAIN Services[i].methods].methods[sel].output
\* The response value of the completed invocation: the body itself in
\* synchronous mode, the value under "result" in polling mode.
ResponseValue == IF cc.polling THEN cc.response.body[2][<<"result">>] ELSE cc.response.body

\* C2: output buffer invariant.  After execute_cheatcode returns Ok, the
\* output_start cell holds (s, 0), the output_end cell holds (s, n) with n the
\* length of serialize(method.output, response), the cells (s, 0)..(s, n-1)
\* hold that serialisation in order, and no other cell of s is written.
C2_OutputBuffer ==
    (Returned /\ returned = "ok") =>
        LET s == cc.res_segment_start[1]
            ser == serialize_cairo_serde(Schema, OutputType(hint.selector.name), ResponseValue)
            n == Len(ser.felts)
        IN /\ ser.ok
           /\ IsSet(mem, hint.output_start) /\ mem[hint.output_start] = RelVal(<<s, 0>>)
           /\ IsSet(mem, hint.output_end) /\ mem[hint.output_end] = RelVal(<<s, n>>)
           /\ SegmentCells(s) = { <<s, i>> : i \in 0..(n - 1) }
           /\ \A i \in 1..n : mem[<<s, i - 1>>] = IntVal(ser.felts[i])
C2_Witness ==
    /\ Returned /\ returned = "ok" /\ cc.polling
    /\ Len(history) = 2
    /\ SegmentCells(history[1].start[1]) # {}

\* C4: the input span must be fully consumed.  If the deserialiser leaves a
\* felt of the span unread, the cheat-code fails with an InputLeftover error
\* and no request is sent.
C4_InputLeftover ==
    (Handled /\ cc.unread > 0) => (returned = "err_input_leftover" /\ requests = <<>>)

\* C5: fresh segment per cheat-code.  The result segment of an invocation is
\* a new one that holds no data when the request goes out and that no earlier
\* invocation's output pointers reference; the output pointers of a completed
\* invocation point into its own segment; the cells of a completed
\* invocation's segment stay those it wrote.
C5_FreshSegment ==
    /\ (Handled /\ pc \in {"await_sync", "await_post", "loop", "await_get"}) =>
          /\ cc.res_segment_start = <<num_segments - 1, 0>>
          /\ SegmentCells(cc.res_segment_start[1]) = {}
          /\ \A i \in 1..Len(history) : history[i].start[1] # cc.res_segment_start[1]
          /\ \A c \in DOMAIN mem : mem[c][1] = "rel" => mem[c][2] # cc.res_segment_start[1]
    /\ \A i \in 1..Len(history) :
          LET e == history[i] IN
          /\ e.start[1] < num_segments
          /\ mem[e.output_start] = RelVal(e.start)
          /\ mem[e.output_end] = e.end_value
          /\ e.end_value[2] = e.start[1]
          /\ SegmentCells(e.start[1]) = { <<e.start[1], k>> : k \in 0..(e.end_value[3] - 1) }
          /\ \A j \in 1..Len(history) : i # j => history[j].start[1] # e.start[1]
C5_Witness ==
    /\ Len(history) = 1
    /\ pc = "await_sync"
    /\ SegmentCells(history[1].start[1]) # {}
    /\ cc.inputs # <<>>

\* C6: routing errors.  A selector no service declares fails with the
\* unknown-selector error; a declared selector without a servers_config entry
\* fails with the no-server error; in both cases no HTTP request is issued
\* and neither output cell is written.
C6_RoutingErrors ==
    (Handled /\ hint.selector.utf8) =>
        LET sel == hint.selector.name IN
        /\ ~Declared(sel) =>
              (returned = "err_unknown_selector" /\ requests = <<>> /\ OutputsUnset)
        /\ (Declared(sel) /\ sel \notin DOMAIN servers_config) =>
              (returned = "err_no_server" /\ requests = <<>> /\ OutputsUnset)
C6_Witness ==
    /\ returned = "err_unknown_selector"
    /\ Len(history) = 1
    /\ requests = <<>>

\* C7: every failure of an invocation is returned to the VM as a HintError;
\* none aborts the process by a panic.
C7_NoPanic == pc # "aborted" /\ returned # "panic"

\* C8: synchronous mode accepts a reply only if the status is 2xx and the
\* body is a JSON object, which it passes to serialize as it is; a non-2xx
\* status or a non-object body fails the invocation and writes nothing to the
\* output cells.
Is2xx(status) == status >= 200 /\ status < 300
C8_SyncReply ==
    (Returned /\ ~cc.polling /\ Len(requests) = 1 /\ cc.response.net = "ok") =>
        /\ returned = "ok" =>
              (Is2xx(cc.response.status) /\ cc.response.json /\ is_object(cc.response.body))
        /\ (~Is2xx(cc.response.status) \/ ~cc.response.json \/ ~is_object(cc.response.body)) =>
              (returned \notin {"ok", "none"} /\ OutputsUnset)

\* C9 as stated: the termination conditions are evaluated before every
\* status request; no status GET is issued once attempt >= max_attempts or
\* once elapsed >= overall_timeout, the invocation failing with the
\* polling-timeout error instead; so at most max_attempts GETs are sent.
C9_NoGetOnceElapsedReached ==
    /\ pc = "await_get" =>
          /\ cc.attempt < cc.polling_config.max_attempts
          /\ elapsed < cc.polling_config.overall_timeout
    /\ NumGets <= cc.polling_config.max_attempts
\* C9: the termination conditions are evaluated before every status
\* request; no status GET is issued once attempt >= max_attempts or once
\* elapsed > overall_timeout (a GET still goes out when elapsed equals
\* overall_timeout); the polling-timeout error is returned only when one of
\* the two holds, with no request after the check; at most max_attempts GETs
\* are sent, none when max_attempts = 0.
C9_PollingTermination ==
    /\ pc = "await_get" =>
          /\ cc.attempt < cc.polling_config.max_attempts
          /\ elapsed <= cc.polling_config.overall_timeout
          /\ NumGets = cc.attempt + 1
    /\ pc = "loop" => NumGets = cc.attempt
    /\ returned = "err_polling_timeout" =>
          /\ \/ cc.attempt >= cc.polling_config.max_attempts
             \/ elapsed > cc.polling_config.overall_timeout
          /\ NumGets = cc.attempt
    /\ NumGets <= cc.polling_config.max_attempts
C9_Witness ==
    /\ returned = "err_polling_timeout"
    /\ cc.polling_config.max_attempts > 0
    /\ NumGets = cc.polling_config.max_attempts
    /\ elapsed = cc.polling_config.overall_timeout

\* C10 as stated: a polling-mode invocation always ends within
\* min(max_attempts * polling_interval, overall_timeout) + request_timeout
\* seconds of its start.
C10_EndsWithinStatedBound ==
    (Handled /\ cc.polling) =>
        elapsed <= Min(cc.polling_config.max_attempts * cc.polling_config.polling_interval,
                       cc.polling_config.overall_timeout) + cc.polling_config.request_timeout
\* C10: with time counted from the start of the invocation and every HTTP
\* call taking at most request_timeout, a polling-mode invocation ends
\* within min(request_timeout + max_attempts * (request_timeout +
\* polling_interval), overall_timeout + request_timeout + polling_interval)
\* seconds: the POST and every GET take up to request_timeout each, the sleep
\* follows every unfinished poll, and the clock is read only before a poll.
C10_BoundedResponse ==
    (Handled /\ cc.polling) =>
        LET p == cc.polling_config IN
        /\ elapsed <= Min(p.request_timeout
                            + p.max_attempts * (p.request_timeout + p.polling_interval),
                          p.overall_timeout + p.request_timeout + p.polling_interval)
        /\ cc.attempt <= p.max_attempts
C10_Witness ==
    /\ returned = "err_polling_timeout"
    /\ cc.polling_config.polling_interval > 0
    /\ elapsed = cc.polling_config.overall_timeout + cc.polling_config.request_timeout
                   + cc.polling_config.polling_interval
    /\ elapsed > Min(cc.polling_config.max_attempts * cc.polling_config.polling_interval,
                     cc.polling_config.overall_timeout) + cc.polling_config.request_timeout

\* C11: polling completion.  A polling-mode invocation returns success only
\* after a status reply whose status is "completed" and which carries a
\* result, and serialises that result; it ends at the first such reply; every
\* other JSON reply leads to a sleep of polling_interval and back to the head
\* of the loop, so k such replies imply that at least k * polling_interval
\* elapsed.
CompletedWithResult(reply) ==
    /\ reply.net = "ok" /\ reply.json
    /\ is_object(reply.body)
    /\ <<"status">> \in DOMAIN reply.body[2]
    /\ reply.body[2][<<"status">>] = JStr(StrCompleted)
    /\ <<"result">> \in DOMAIN reply.body[2]
LastStatusReplyHandled == Handled /\ cc.polling /\ NumGets > 0 /\ pc # "await_get"
C11_PollingCompletion ==
    /\ (Handled /\ cc.polling) => elapsed >= cc.attempt * cc.polling_config.polling_interval
    /\ LastStatusReplyHandled =>
          /\ CompletedWithResult(cc.response) =>
                /\ pc # "loop" /\ returned \in {"ok", "panic"}
                /\ cc.attempt = NumGets - 1
          /\ (cc.response.net = "ok" /\ cc.response.json /\ ~CompletedWithResult(cc.response)) =>
                /\ pc = "loop" \/ returned = "err_polling_timeout"
                /\ cc.attempt = NumGets
          /\ returned = "ok" =>
                /\ CompletedWithResult(cc.response)
                /\ LET ser == serialize_cairo_serde(Schema, cc.output,
                                                    cc.response.body[2][<<"result">>])
                   IN ser.ok /\ \A i \in 1..Len(ser.felts) :
                        mem[<<cc.res_segment_start[1], i - 1>>] = IntVal(ser.felts[i])
C11_Witness ==
    /\ LastStatusReplyHandled /\ returned = "ok"
    /\ cc.attempt = 2
    /\ cc.polling_config.polling_interval > 0
    /\ elapsed = 2 * cc.polling_config.polling_interval

\* C12 as stated: each status request is a GET whose path is the path of
\* server_url followed by the segments <selector>, "status", <jobId>; the
\* initial POST goes to server_url followed by the segment <selector>.
BasePath(sel) ==
    LET p == url_path(servers_config[sel].url) IN IF p = <<Seg("")>> THEN <<>> ELSE p
RECURSIVE InnerAlone(_, _, _)
InnerAlone(m, hints, n) ==
    IF Len(hints) = 0 THEN [ok |-> TRUE, mem |-> m, n |-> n]
    ELSE IF ~inner_execute(m, hints[1]).ok THEN [ok |-> FALSE, mem |-> m, n |-> n + 1]
    ELSE InnerAlone(inner_execute(m, hints[1]).mem, Tail(hints), n + 1)
\* The list positions of the hints of the block that are not the Cheatcode hint.
CorePositions == [i \in 1..(Len(hint.pre) + Len(hint.post)) |->
                    IF i <= Len(hint.pre) THEN hint.pre[i].pos ELSE hint.post[i - Len(hint.pre)].pos]
InnerCallsInOrder == hint.inner_calls = SubSeq(CorePositions, 1, Len(hint.inner_calls))
CheatcodeReturnedOk == Len(history) = 1

\* C18: execute_hint handles the hints of a block in list order, the
\* Cheatcode hint through the interceptor and every other hint through the
\* inner processor; on a block without a Cheatcode hint the memory and the
\* result are those of the inner processor alone; the first hint that
\* returns an error ends the block and no later hint is executed.
C18_HintDispatch ==
    /\ InnerCallsInOrder
    /\ hint.kind = "core" =>
          LET i == InnerAlone(hint.mem0, hint.pre, 0) IN
            /\ mem = i.mem
            /\ returned = (IF i.ok THEN "ok" ELSE "err_inner")
            /\ Len(hint.inner_calls) = i.n
            /\ requests = <<>>
    /\ Handled =>
          LET i == InnerAlone(hint.mem0, hint.pre, 0) IN
            /\ ~i.ok => /\ returned = "err_inner"
                        /\ mem = i.mem
                        /\ Len(hint.inner_calls) = i.n
                        /\ requests = <<>>
                        /\ cc = NoCc
            /\ i.ok => Len(hint.inner_calls) >= Len(hint.pre)
            /\ Len(hint.inner_calls) > Len(hint.pre) => CheatcodeReturnedOk
            /\ (Returned /\ CheatcodeReturnedOk) =>
                  LET o == InnerAlone(hint.mem0, hint.post, 0) IN
                    /\ returned = (IF o.ok THEN "ok" ELSE "err_inner")
                    /\ Len(hint.inner_calls) = Len(hint.pre) + o.n
                    /\ \A j \in 1..Len(hint.post) :
                          IsSet(mem, hint.post[j].dst) <=> IsSet(o.mem, hint.post[j].dst)
            /\ (Returned /\ ~CheatcodeReturnedOk /\ i.ok) =>
                  /\ Len(hint.inner_calls) = Len(hint.pre)
                  /\ \A j \in 1..Len(hint.post) : ~IsSet(mem, hint.post[j].dst)
    /\ returned \notin {"none", "ok"} => pc \in {"halted", "aborted"}
C18_Witness ==
    /\ Handled
    /\ returned = "err_inner"
    /\ CheatcodeReturnedOk
    /\ Len(hint.pre) = 2
    /\ Len(hint.post) = 2
    /\ Len(hint.inner_calls) = 3

-----------------------------------------------------------------------------
\* Properties of the test runner.

InSeq(x, seq) == \E j \in 1..Len(seq) : seq[j] = x
CompiledTest(name) == CHOOSE t \in { tCompiled[j] : j \in 1..Len(tCompiled) } : t.name = name
Executed(name) == \E k \in 1..Len(tRuns) : tRuns[k].name = name
Kept(name) == \E j \in 1..Len(tNamed) : tNamed[j].name = name
\* The verdict the run result and the expectation call for.
ShouldPass(r, expectation) ==
    \/ r = RunOk /\ expectation = ExpectSuccess
    \/ r[1] = "RunPanic" /\ expectation = ExpectPanicsAny
    \/ r[1] = "RunPanic" /\ expectation = ExpectPanicsExact(r[2])

\* C19: a test whose run succeeded or panicked is reported as passed iff the
\* run succeeded and Success was expected, or it panicked and any panic was
\* expected, or it panicked with exactly the expected data; otherwise it is
\* reported as failed.
C19_TestVerdict ==
    \A k \in 1..Len(tRuns) :
        LET name == tRuns[k].name
            r == tRuns[k].result
        IN r # RunErr =>
             IF ShouldPass(r, CompiledTest(name).expectation)
             THEN InSeq(name, tSummary.passed) /\ ~InSeq(name, tSummary.failed)
             ELSE InSeq(name, tSummary.failed) /\ ~InSeq(name, tSummary.passed)

TestsReported == tPc \in {"passed", "failed"}
\* C20: the kept tests all contain the filter and filtered_out counts the
\* removed ones; with no flag an ignored test is reported as ignored and not
\* executed; with include_ignored every kept test is executed; with ignored
\* alone the kept tests are the ignored ones that match the filter, and they
\* are executed, not reported as ignored.
C20_TestSelection ==
    /\ tPc \notin {"idle", "compiled"} =>
          /\ \A j \in 1..Len(tNamed) : Contains(tNamed[j].name, tConfig.filter)
          /\ tFilteredOut = Len(tCompiled) - Len(tNamed)
          /\ (tConfig.ignored /\ ~tConfig.include_ignored) =>
                \A j \in 1..Len(tCompiled) :
                    Kept(tCompiled[j].name) <=>
                        (tCompiled[j].ignored /\ Contains(tCompiled[j].name, tConfig.filter))
    /\ TestsReported =>
          \A j \in 1..Len(tNamed) :
              LET name == tNamed[j].name IN
                /\ (~tConfig.ignored /\ ~tConfig.include_ignored /\ CompiledTest(name).ignored) =>
                      InSeq(name, tSummary.ignored) /\ ~Executed(name)
                /\ tConfig.include_ignored => Executed(name)
                /\ (tConfig.ignored /\ ~tConfig.include_ignored) =>
                      Executed(name) /\ ~InSeq(name, tSummary.ignored)

-----------------------------------------------------------------------------
\* Further properties of the codec.

\* The integer range of a declared type (an Enum travels as an I32).
IntRangeOf(ty) ==
    CASE ty = Primitive("U32") -> [lo |-> 0, hi |-> U32Max]
      [] ty = Primitive("U64") -> [lo |-> 0, hi |-> U64Max]
      [] ty = Primitive("I64") -> [lo |-> I64Min, hi |-> I64Max]
      [] OTHER -> [lo |-> I32Min, hi |-> I32Max]
IsIntType(ty) ==
    ty \in {Primitive("U32"), Primitive("U64"), Primitive("I32"), Primitive("I64")}
      \/ ty[1] = "enum"
OutOfRange(ty, n) == n < IntRangeOf(ty).lo \/ n > IntRangeOf(ty).hi

\* C27: serialising a JSON integer outside the range of the declared integer
\* type fails and emits no felt; deserialising a felt whose value is outside
\* the range of the declared type fails.
C27_IntegerRange ==
    /\ (SerApplied /\ IsIntType(cTy) /\ Kind(cJson) = "num" /\ OutOfRange(cTy, cJson[2])) =>
          ~cSer.ok /\ cSer.felts = <<>>
    /\ (DeApplied /\ IsIntType(cTy) /\ cTy[1] = "primitive" /\ Len(cFelts) > 0
          /\ OutOfRange(cTy, cFelts[1])) => ~cDe.ok

\* The key the field is read from: its name when present, else the name
\* with one leading "felt252_" removed when that is present.
FieldKey(obj, name) ==
    IF HasKey(obj, name) THEN <<name>>
    ELSE IF Len(name) > 0 /\ name[1] = Felt252Prefix /\ HasKey(obj, Tail(name)) THEN <<Tail(name)>>
    ELSE <<>>
RECURSIVE FieldsInOrder(_, _, _)
FieldsInOrder(fields, i, obj) ==
    IF i > Len(fields) THEN SerOk(<<>>)
    ELSE LET k == FieldKey(obj, fields[i].name) IN
         IF Len(k) = 0 THEN SerPanic
         ELSE LET h == serialize_cairo_serde(Schema, fields[i].ty, Get(obj, k[1]))
                  t == FieldsInOrder(fields, i + 1, obj)
              IN IF h.ok /\ t.ok THEN SerOk(h.felts \o t.felts) ELSE SerPanic
SerMessageApplied ==
    SerApplied /\ cTy[1] = "message" /\ cTy[2] \in DOMAIN Messages /\ is_object(cJson)

\* C28: the fields of a message are emitted in declared order, each read
\* from the JSON key equal to its name, or, when that key is absent and the
\* name is felt252_X, from the key X; serialisation fails when neither key
\* is present, and keys that name no field are ignored.
C28_FieldLookup ==
    SerMessageApplied => cSer = FieldsInOrder(Messages[cTy[2]], 1, cJson)

\* run_tests has returned Ok: every test went through, none hit the panic!.
RunTestsReturnedOk == tPc \in {"passed", "failed"} \/ (tPc = "running" /\ tPending = {})
Occurrences(x, seq) == Cardinality({ j \in 1..Len(seq) : seq[j] = x })
RunOf(name) == tRuns[CHOOSE k \in 1..Len(tRuns) : tRuns[k].name = name]

\* C29: when run_tests returns Ok, every test given to it is in exactly one
\* of passed, failed and ignored, once, and failed_run_results is as long
\* as failed, its i-th entry being the run result carried by the Fail
\* status of the i-th failed test, whatever order the workers finish in.
C29_ParallelSummary ==
    RunTestsReturnedOk =>
      /\ \A j \in 1..Len(tNamed) :
            Occurrences(tNamed[j].name, tSummary.passed \o tSummary.failed \o tSummary.ignored) = 1
      /\ Len(tSummary.passed) + Len(tSummary.failed) + Len(tSummary.ignored) = Len(tNamed)
      /\ Len(tSummary.failed_run_results) = Len(tSummary.failed)
      /\ \A i \in 1..Len(tSummary.failed) :
            /\ Executed(tSummary.failed[i])
            /\ StatusFail(tSummary.failed_run_results[i])
                 = test_status(RunOf(tSummary.failed[i]).result,
                               CompiledTest(tSummary.failed[i]).expectation)
C29_Witness ==
    /\ tPc = "failed"
    /\ Len(tNamed) = MaxTests
    /\ Len(tSummary.failed) = MaxTests
    /\ tSummary.failed[1] = TestName(MaxTests)
    /\ tSummary.failed_run_results[1] # tSummary.failed_run_results[MaxTests]

-----------------------------------------------------------------------------
\* process_args (scarb-hints-run/args.rs, scarb-hints-lib/serialization.rs):
\* the argument string is split at spaces and parsed token by token.

ChSpace == ChOther + 1
ChOpen == ChOther + 2
ChClose == ChOther + 3
MaxArgLen == 4
ArgChars == { ChZero + 1, ChOther, ChSpace, ChOpen, ChClose }
RECURSIVE StringsUpTo(_)
StringsUpTo(n) ==
    IF n = 0 THEN { <<>> }
    ELSE StringsUpTo(n - 1) \cup { Append(x, c) : x \in { y \in StringsUpTo(n - 1) : Len(y) = n - 1 },
                                                c \in ArgChars }
ArgStrings == StringsUpTo(MaxArgLen)

\* value.split(' '): the pieces between the spaces, empty pieces included.
RECURSIVE Split(_)
Split(s) ==
    IF \A i \in 1..Len(s) : s[i] # ChSpace THEN <<s>>
    ELSE LET i == CHOOSE k \in 1..Len(s) : s[k] = ChSpace /\ \A j \in 1..(k - 1) : s[j] # ChSpace
         IN <<SubSeq(s, 1, i - 1)>> \o Split(SubSeq(s, i + 1, Len(s)))
starts_with_open(t) == Len(t) > 0 /\ t[1] = ChOpen
ends_with_close(t) == Len(t) > 0 /\ t[Len(t)] = ChClose
strip_prefix(t) == Tail(t)
strip_suffix(t) == SubSeq(t, 1, Len(t) - 1)
\* FuncArg
Single(f) == <<"Single", f>>
ArrayArg(elems) == <<"Array", elems>>
ArgsLocals(input, args, array_arg) == [input |-> input, args |-> args, array_arg |-> array_arg]

\* Entry: the empty string gives FuncArgs::default(), else the split begins.
ArgsStart ==
    /\ uPc = "start"
    /\ uPc' = IF Len(uIn) = 0 THEN "ok" ELSE "outer"
    /\ uSt' = ArgsLocals(IF Len(uIn) = 0 THEN <<>> ELSE Split(uIn), <<>>, <<>>)
    /\ UNCHANGED uIn
    /\ UNCHANGED <<hpVars, codecVars, testVars>>

\* One pass of `while let Some(value) = input.next()`.
ArgsOuter ==
    /\ uPc = "outer"
    /\ IF Len(uSt.input) = 0 THEN uPc' = "ok" /\ uSt' = uSt
       ELSE LET value == Head(uSt.input)
                rest == Tail(uSt.input)
            IN IF starts_with_open(value)
               THEN IF ends_with_close(value)
                    THEN IF Len(value) = 2
                         THEN /\ uPc' = "outer"
                              /\ uSt' = ArgsLocals(rest, Append(uSt.args, ArrayArg(<<>>)), <<>>)
                         ELSE LET elem == strip_suffix(strip_prefix(value)) IN
                              IF from_dec_str_ok(elem)
                              THEN /\ uPc' = "outer"
                                   /\ uSt' = ArgsLocals(rest,
                                               Append(uSt.args, ArrayArg(<<from_dec_str(elem)>>)), <<>>)
                              ELSE uPc' = "panic" /\ uSt' = ArgsLocals(rest, uSt.args, <<>>)
                    ELSE IF from_dec_str_ok(strip_prefix(value))
                         THEN /\ uPc' = "inner"
                              /\ uSt' = ArgsLocals(rest, uSt.args, <<from_dec_str(strip_prefix(value))>>)
                         ELSE uPc' = "panic" /\ uSt' = ArgsLocals(rest, uSt.args, <<>>)
               ELSE IF from_dec_str_ok(value)
                    THEN /\ uPc' = "outer"
                         /\ uSt' = ArgsLocals(rest, Append(uSt.args, Single(from_dec_str(value))), <<>>)
                    ELSE uPc' = "panic" /\ uSt' = ArgsLocals(rest, uSt.args, <<>>)
    /\ UNCHANGED uIn
    /\ UNCHANGED <<hpVars, codecVars, testVars>>

\* One pass of `while !array_end`: with no token left nothing changes and
\* the loop goes round again.
ArgsInner ==
    /\ uPc = "inner"
    /\ IF Len(uSt.input) = 0 THEN uPc' = "inner" /\ uSt' = uSt
       ELSE LET value == Head(uSt.input)
                rest == Tail(uSt.input)
            IN IF ends_with_close(value)
               THEN IF from_dec_str_ok(strip_suffix(value))
                    THEN /\ uPc' = "outer"
                         /\ uSt' = ArgsLocals(rest,
                                     Append(uSt.args,
                                            ArrayArg(Append(uSt.array_arg,
                                                            from_dec_str(strip_suffix(value))))),
                                     <<>>)
                    ELSE uPc' = "panic" /\ uSt' = ArgsLocals(rest, uSt.args, uSt.array_arg)
               ELSE IF from_dec_str_ok(value)
                    THEN /\ uPc' = "inner"
                         /\ uSt' = ArgsLocals(rest, uSt.args,
                                              Append(uSt.array_arg, from_dec_str(value)))
                    ELSE uPc' = "panic" /\ uSt' = ArgsLocals(rest, uSt.args, uSt.array_arg)
    /\ UNCHANGED uIn
    /\ UNCHANGED <<hpVars, codecVars, testVars>>

InitArgs ==
    /\ HpIdle(0, ServersConfig(TRUE, FixedPollingConfig))
    /\ CodecIdle
    /\ TestIdle
    /\ uPc = "start"
    /\ uIn \in ArgStrings
    /\ uSt = ArgsLocals(<<>>, <<>>, <<>>)
NextArgs == ArgsStart \/ ArgsOuter \/ ArgsInner
SpecArgs == InitArgs /\ [][NextArgs]_vars
\* The thread that runs process_args keeps running.
SpecArgsFair == SpecArgs /\ WF_vars(NextArgs)

\* C30: process_args terminates on every argument string, an array opened
\* with '[' and never closed included: it ends with the parsed FuncArgs or
\* with an error.
C30_ProcessArgsTerminates == <>(uPc \in {"ok", "panic"})

-----------------------------------------------------------------------------
\* scarb-hints-run: run() collects the return values of the entry function,
\* main() turns the result of run() into output and an exit status.

MaxReturnSize == 4
MaxPanicLen == 2
PanicSegment == ExecutionSegment + 2
\* The result of run()
RunReturned(values) == <<"Ok", values>>
RunFailed(error) == <<"Err", error>>
ErrRunPanic(panic_data) == <<"RunPanic", panic_data>>
ErrFailedToExtract == <<"FailedToExtractReturnValues">>
ErrVirtualMachine == <<"VirtualMachine">>
ErrCli == <<"Cli">>

\* Relocatable - Relocatable: defined within one segment, when not negative.
rel_sub_ok(a, b) == a[1] = b[1] /\ a[2] >= b[2]
\* A read that starts at the beginning of the segment, whatever start is.
get_integer_range_from_zero(m, start, size) == vm_get_range(m, <<start[1], 0>>, <<start[1], size>>)
\* vm.get_integer_range(start, size)
get_integer_range(m, start, size) == vm_get_range(m, start, <<start[1], start[2] + size>>)

\* The tail of run(): the check for a PanicResult and the extraction.
collect_return_values(m, return_values, is_panic_result) ==
    IF ~is_panic_result THEN RunReturned(return_values)
    ELSE IF return_values[1] # IntVal(0)
    THEN LET last == return_values[Len(return_values)]
             before == return_values[Len(return_values) - 1]
         IN IF last[1] # "rel" \/ before[1] # "rel" THEN RunFailed(ErrFailedToExtract)
            ELSE LET panic_data_end == <<last[2], last[3]>>
                     panic_data_start == <<before[2], before[3]>>
                 IN IF ~rel_sub_ok(panic_data_end, panic_data_start)
                    THEN RunFailed(ErrVirtualMachine)
                    ELSE LET r == get_integer_range(m, panic_data_start,
                                                    panic_data_end[2] - panic_data_start[2])
                         IN IF r.ok THEN RunFailed(ErrRunPanic(r.values))
                            ELSE RunFailed(ErrVirtualMachine)
    ELSE IF Len(return_values) < 3 THEN RunFailed(ErrFailedToExtract)
    ELSE RunReturned(SubSeq(return_values, 3, Len(return_values)))

\* main(): what is printed and the status the process exits with.  clap's
\* Error::exit ends the process with status 2 on a usage error; an Err
\* returned from main ends it with status 1.
main_exit(run_result) ==
    IF run_result[1] = "Ok"
    THEN [status |-> 0, stdout |-> IF Len(run_result[2]) # 0 THEN <<"Return values", run_result[2]>>
                                   ELSE <<>>]
    ELSE IF run_result[2] = ErrCli THEN [status |-> 2, stdout |-> <<>>]
    ELSE IF run_result[2][1] = "RunPanic"
    THEN [status |-> 0, stdout |-> IF Len(run_result[2][2]) # 0
                                   THEN <<"Run panicked with", run_result[2][2]>> ELSE <<>>]
    ELSE [status |-> 1, stdout |-> <<>>]

\* The inputs: the cells the entry function returned, the memory of the
\* panic data segment, whether the return type is a PanicResult, and an
\* error that ends run() before the return values are read.
PanicMemory(len) == WriteInts(EmptyMem, PanicSegment, 0, [i \in 1..len |-> i + 4])
ReturnTails ==
    { <<>> } \cup { <<RelVal(<<PanicSegment, s>>), RelVal(<<PanicSegment, e>>)>> :
                      s \in 0..MaxPanicLen, e \in 0..MaxPanicLen }
ReturnValues(n, flag, tail) ==
    [i \in 1..n |-> IF Len(tail) = 2 /\ n >= 3 /\ i >= n - 1 THEN tail[i - n + 2]
                    ELSE IF i = 1 THEN IntVal(flag) ELSE IntVal(7)]
RunInputs ==
    { [mem |-> PanicMemory(len), return_values |-> ReturnValues(n, flag, tail),
       is_panic_result |-> p, fault |-> f] :
        len \in 0..MaxPanicLen, n \in 2..MaxReturnSize, flag \in {0, 1}, tail \in ReturnTails,
        p \in BOOLEAN, f \in {"none", "cli", "vm"} }
NoRun == [result |-> <<>>, status |-> 0, stdout |-> <<>>]

\* run() returns.
RunReturns ==
    /\ uPc = "run"
    /\ uPc' = "main"
    /\ uSt' = [NoRun EXCEPT !.result =
                  CASE uIn.fault = "cli" -> RunFailed(ErrCli)
                    [] uIn.fault = "vm" -> RunFailed(ErrVirtualMachine)
                    [] OTHER -> collect_return_values(uIn.mem, uIn.return_values,
                                                      uIn.is_panic_result)]
    /\ UNCHANGED uIn
    /\ UNCHANGED <<hpVars, codecVars, testVars>>
\* main() matches on the result and the process exits.
MainExits ==
    /\ uPc = "main"
    /\ uPc' = "exited"
    /\ uSt' = [uSt EXCEPT !.status = main_exit(uSt.result).status,
                          !.stdout = main_exit(uSt.result).stdout]
    /\ UNCHANGED uIn
    /\ UNCHANGED <<hpVars, codecVars, testVars>>

InitRun ==
    /\ HpIdle(0, ServersConfig(TRUE, FixedPollingConfig))
    /\ CodecIdle
    /\ TestIdle
    /\ uPc = "run"
    /\ uIn \in RunInputs
    /\ uSt = NoRun
NextRun == RunReturns \/ MainExits
SpecRun == InitRun /\ [][NextRun]_vars

RunCollected == uPc \in {"main", "exited"} /\ uIn.fault = "none" /\ uIn.is_panic_result
LastCell == uIn.return_values[Len(uIn.return_values)]
CellBefore == uIn.return_values[Len(uIn.return_values) - 1]
\* The last two returned cells are relocatables that delimit integers.
HoldsPanicSpan ==
    /\ LastCell[1] = "rel" /\ CellBefore[1] = "rel"
    /\ LastCell[2] = CellBefore[2] /\ LastCell[3] >= CellBefore[3]
    /\ \A o \in CellBefore[3]..(LastCell[3] - 1) :
          IsSet(uIn.mem, <<CellBefore[2], o>>) /\ uIn.mem[<<CellBefore[2], o>>][1] = "int"
PanicSpan == [i \in 1..(LastCell[3] - CellBefore[3]) |->
                uIn.mem[<<CellBefore[2], CellBefore[3] + i - 1>>][2]]
FirstTwoDropped == [i \in 1..(Len(uIn.return_values) - 2) |-> uIn.return_values[i + 2]]
PanicFlagSet == uIn.return_values[1] # IntVal(0)

C22_ExitStatus ==
    uPc = "exited" =>
      /\ uSt.status = 0 <=> uSt.result[1] = "Ok"
      /\ (uSt.result[1] = "Err" /\ uSt.result[2] # ErrCli) => uSt.status = 1
      /\ (uSt.result[1] = "Err" /\ uSt.result[2][1] = "RunPanic" /\ Len(uSt.result[2][2]) # 0) =>
            uSt.stdout = <<"Run panicked with", uSt.result[2][2]>>

\* ---------------------------------------------------------------------
\* Code generator: proto descriptors to Cairo code and a schema.
\* A name is a string; an identifier path is a sequence of names (the
\* text joined by "." in proto and by "::" in Cairo); a field name is a
\* sequence of segments, as in the codec.
\* ---------------------------------------------------------------------
ProtoScalarTypes ==
    { "Float", "Double", "Uint32", "Fixed32", "Uint64", "Fixed64",
      "Int32", "Sfixed32", "Sint32", "Int64", "Sfixed64", "Sint64",
      "Bool", "String", "Bytes" }
FieldDescriptorProto(name, type, label, proto3_optional, type_name) ==
    [name |-> name, type |-> type, label |-> label,
     proto3_optional |-> proto3_optional, type_name |-> type_name]
DescriptorProto(name, field, nested_type, enum_type) ==
    [name |-> name, field |-> field, nested_type |-> nested_type, enum_type |-> enum_type]
EnumDescriptorProto(name, value) == [name |-> name, value |-> value]
MethodDescriptorProto(name, input_type, output_type) ==
    [name |-> name, input_type |-> input_type, output_type |-> output_type]
ServiceDescriptorProto(name, method) == [name |-> name, method |-> method]
FileDescriptorProto(package, syntax, message_type, enum_type, service) ==
    [package |-> package, syntax |-> syntax, message_type |-> message_type,
     enum_type |-> enum_type, service |-> service]

\* Case conversions of the identifiers that occur in the descriptors.
to_snake(s) ==
    CASE s = "Outer" -> "outer"
      [] s = "Inner" -> "inner"
      [] s = "Sqrt" -> "sqrt"
      [] s = "Log" -> "log"
      [] OTHER -> s
to_upper_camel(s) ==
    CASE s = "peer" -> "Peer"
      [] s = "size" -> "Size"
      [] OTHER -> s

GenPanic == <<"panic">>
FieldPanic == Field(<<>>, GenPanic)

\* Longest common prefix of two paths: what the skipping loop consumes.
CommonPrefix(a, b) ==
    CHOOSE k \in 0..Min(Len(a), Len(b)) :
        /\ \A i \in 1..k : a[i] = b[i]
        /\ (k < Min(Len(a), Len(b)) => a[k + 1] # b[k + 1])

resolve_ident(package, type_path, pb_ident) ==
    LET local_path == package \o type_path
        ident_type == pb_ident[Len(pb_ident)]
        ident_path == SubSeq(pb_ident, 1, Len(pb_ident) - 1)
        k == CommonPrefix(local_path, ident_path)
    IN  [i \in 1..(Len(local_path) - k) |-> "super"]
        \o [i \in 1..(Len(ident_path) - k) |-> to_snake(ident_path[k + i])]
        \o <<to_upper_camel(ident_type)>>

resolve_type(field, package, type_path) ==
    CASE field.type \in {"Float", "Double"} -> GenPanic
      [] field.type \in {"Uint32", "Fixed32"} -> <<"u32">>
      [] field.type \in {"Uint64", "Fixed64"} -> <<"u64">>
      [] field.type \in {"Int32", "Sfixed32", "Sint32"} -> <<"i32">>
      [] field.type \in {"Int64", "Sfixed64", "Sint64"} -> <<"i64">>
      [] field.type = "Bool" -> <<"bool">>
      [] field.type = "String" -> <<"ByteArray">>
      [] field.type = "Bytes" -> <<"ByteArray">>
      [] field.type \in {"Message", "Enum"} ->
            resolve_ident(package, type_path, field.type_name)

\* impl From<String> for FieldType
FieldTypeFrom(value) ==
    CASE value = <<"u64">> -> Primitive("U64")
      [] value = <<"u32">> -> Primitive("U32")
      [] value = <<"i32">> -> Primitive("I32")
      [] value = <<"i64">> -> Primitive("I64")
      [] value = <<"bool">> -> Primitive("BOOL")
      [] value = <<"ByteArray">> -> Primitive("BYTEARRAY")
      [] OTHER -> Message(value)

optional(field, syntax) ==
    IF field.proto3_optional THEN TRUE
    ELSE IF field.label # "Optional" THEN FALSE
    ELSE IF field.type = "Message" THEN TRUE
    ELSE syntax = "proto2"

\* The schema entry of one field, or FieldPanic.
append_field(field, package, type_path, syntax) ==
    LET ty == resolve_type(field, package, type_path)
        field_name == [i \in 1..Len(field.name) |-> to_snake(field.name[i])]
    IN  IF ty = GenPanic THEN FieldPanic
        ELSE IF field.label = "Repeated" THEN Field(field_name, Array(FieldTypeFrom(ty)))
        ELSE IF optional(field, syntax) THEN Field(field_name, Option(FieldTypeFrom(ty)))
        ELSE IF field.type = "Enum" THEN Field(field_name, Enum(ty))
        ELSE Field(field_name, FieldTypeFrom(ty))

EmptyConfiguration == [enums |-> <<>>, messages |-> <<>>, services |-> <<>>]
\* What one module accumulates: the code buffer, the schema, and
\* whether a panic! was reached.
NewModule == [code_buf |-> <<>>, serde_config |-> EmptyConfiguration, panicked |-> FALSE]

append_enum(desc, gen) ==
    LET enum_name == to_upper_camel(desc.name)
    IN  [gen EXCEPT
            !.code_buf = Append(@, <<"enum", enum_name, desc.value>>),
            !.serde_config.enums = MapInsert(@, <<enum_name>>, desc.value)]

RECURSIVE append_enums(_, _)
append_enums(descs, gen) ==
    IF descs = <<>> THEN gen
    ELSE append_enums(Tail(descs), append_enum(Head(descs), gen))

RECURSIVE append_message(_, _, _, _, _)
RECURSIVE append_messages(_, _, _, _, _)
append_message(message, package, type_path, syntax, gen) ==
    LET struct_name == to_upper_camel(message.name)
        fields_def == [i \in 1..Len(message.field) |->
                          append_field(message.field[i], package, type_path, syntax)]
        failed == \E i \in 1..Len(fields_def) : fields_def[i] = FieldPanic
        own == [gen EXCEPT
                   !.code_buf = Append(@, <<"struct", struct_name, fields_def>>),
                   !.serde_config.messages = MapInsert(@, <<struct_name>>, fields_def)]
        inner_path == Append(type_path, message.name)
    IN  IF gen.panicked THEN gen
        ELSE IF failed THEN [gen EXCEPT !.panicked = TRUE]
        ELSE IF message.enum_type = <<>> /\ message.nested_type = <<>> THEN own
        ELSE append_enums(message.enum_type,
                append_messages(message.nested_type, package, inner_path, syntax,
                    [own EXCEPT !.code_buf = Append(@, <<"mod", to_snake(message.name)>>)]))
append_messages(messages, package, type_path, syntax, gen) ==
    IF messages = <<>> THEN gen
    ELSE append_messages(Tail(messages), package, type_path, syntax,
            append_message(Head(messages), package, type_path, syntax, gen))

\* append_service followed by append_service_def: the trait in the
\* code buffer follows the order of the descriptor, the schema keeps a
\* hash map of the methods.
RECURSIVE MethodMap(_, _, _)
MethodMap(methods, package, map) ==
    IF methods = <<>> THEN map
    ELSE MethodMap(Tail(methods), package,
            MapInsert(map, to_snake(Head(methods).name),
                MethodDeclaration(
                    Message(resolve_ident(package, <<>>, Head(methods).input_type)),
                    Message(resolve_ident(package, <<>>, Head(methods).output_type)))))
append_service(service, package, gen) ==
    LET name == to_upper_camel(service.name)
        fns == [i \in 1..Len(service.method) |->
                   <<"fn", to_snake(service.method[i].name),
                     resolve_ident(package, <<>>, service.method[i].input_type),
                     resolve_ident(package, <<>>, service.method[i].output_type)>>]
    IN  IF gen.panicked THEN gen
        ELSE [gen EXCEPT
                !.code_buf = Append(@, <<"impl", name, fns>>),
                !.serde_config.services =
                    MapInsert(@, <<name>>, [methods |-> MethodMap(service.method, package, <<>>)])]
RECURSIVE append_services(_, _, _)
append_services(services, package, gen) ==
    IF services = <<>> THEN gen
    ELSE append_services(Tail(services), package, append_service(Head(services), package, gen))

\* CodeGenerator::generate for one file: messages, then enums, then services.
CodeGeneratorGenerate(file, gen) ==
    append_services(file.service, file.package,
        LET m == append_messages(file.message_type, file.package, <<>>, file.syntax, gen)
            IN  IF m.panicked THEN m ELSE append_enums(file.enum_type, m))

\* Config::generate: every request goes through the code generator into
\* the buffers of its module; then, for each proto path, the entries of
\* the modules outside the path are copied under "super::<module>::<name>"
\* into the modules the path names.
RECURSIVE GenerateRequests(_, _)
GenerateRequests(reqs, modules) ==
    IF reqs = <<>> THEN modules
    ELSE LET module == Head(reqs)[1]
             before == IF module \in DOMAIN modules THEN modules[module] ELSE NewModule
         IN  GenerateRequests(Tail(reqs),
                MapInsert(modules, module, CodeGeneratorGenerate(Head(reqs)[2], before)))
PathContains(path, component) == \E i \in 1..Len(path) : path[i] = component
SuperKey(e) == <<"super", e[1]>> \o e[2]
MergeSuper(modules, module, path, kind) ==
    LET outside == { o \in DOMAIN modules : ~PathContains(path, o) }
        sup == UNION { { <<o, k>> : k \in DOMAIN modules[o].serde_config[kind] } : o \in outside }
        base == modules[module].serde_config[kind]
    IN  [x \in DOMAIN base \cup { SuperKey(e) : e \in sup } |->
            IF \E e \in sup : SuperKey(e) = x
            THEN LET e == CHOOSE e \in sup : SuperKey(e) = x
                 IN  modules[e[1]].serde_config[kind][e[2]]
            ELSE base[x]]
RECURSIVE MergeProtos(_, _)
MergeProtos(protos, modules) ==
    IF protos = <<>> THEN modules
    ELSE MergeProtos(Tail(protos),
            [m \in DOMAIN modules |->
                IF PathContains(Head(protos), m)
                THEN [modules[m] EXCEPT !.serde_config =
                        [enums |-> MergeSuper(modules, m, Head(protos), "enums"),
                         messages |-> MergeSuper(modules, m, Head(protos), "messages"),
                         services |-> MergeSuper(modules, m, Head(protos), "services")]]
                ELSE modules[m]])
generate(protos, reqs) ==
    LET modules == GenerateRequests(reqs, <<>>)
    IN  IF \E m \in DOMAIN modules : modules[m].panicked
        THEN [panicked |-> TRUE, modules |-> <<>>]
        ELSE [panicked |-> FALSE, modules |-> MergeProtos(protos, modules)]

\* Byte order of the names that occur, and the order it induces on keys.
NameOrder ==
    <<"EchoOracle", "Far", "Inner", "Oracle", "Outer", "Peer", "Size", "SqrtOracle",
      "other", "pkg", "super">>
NameRank(n) == CHOOSE i \in 1..Len(NameOrder) : NameOrder[i] = n
RECURSIVE KeyLess(_, _)
KeyLess(a, b) ==
    IF a = <<>> THEN b # <<>>
    ELSE IF b = <<>> THEN FALSE
    ELSE IF Head(a) = Head(b) THEN KeyLess(Tail(a), Tail(b))
    ELSE NameRank(Head(a)) < NameRank(Head(b))
\* The keys of a BTreeMap in the order its iterator yields them.
BTreeKeys(map) ==
    CHOOSE s \in [1..Cardinality(DOMAIN map) -> DOMAIN map] :
        \A i, j \in 1..Cardinality(DOMAIN map) : i < j => KeyLess(s[i], s[j])
\* The orders in which a HashMap may yield its keys.
HashOrders(map) ==
    { s \in [1..Cardinality(DOMAIN map) -> DOMAIN map] :
        \A i, j \in 1..Cardinality(DOMAIN map) : i # j => s[i] # s[j] }

\* serde_json::to_string(&Configuration): each top-level map as the list
\* of its entries; a service is the list of its methods in hash order.
ServiceJson(service, order) ==
    [j \in 1..Len(order) |-> <<order[j], service.methods[order[j]]>>]
ConfigurationJson(config, orders) ==
    [enums |-> [i \in 1..Cardinality(DOMAIN config.enums) |->
                    <<BTreeKeys(config.enums)[i], config.enums[BTreeKeys(config.enums)[i]]>>],
     messages |-> [i \in 1..Cardinality(DOMAIN config.messages) |->
                    <<BTreeKeys(config.messages)[i], config.messages[BTreeKeys(config.messages)[i]]>>],
     services |-> [i \in 1..Cardinality(DOMAIN config.services) |->
                    <<BTreeKeys(config.services)[i],
                      ServiceJson(config.services[BTreeKeys(config.services)[i]],
                                  orders[BTreeKeys(config.services)[i]])>>]]
ServiceOrders(config) ==
    { o \in [DOMAIN config.services ->
                UNION { HashOrders(config.services[k].methods) : k \in DOMAIN config.services }] :
        \A k \in DOMAIN config.services : o[k] \in HashOrders(config.services[k].methods) }

\* compile_fds after generate: one Cairo file per module, and the
\* schema JSON for the modules that a proto path names.
WrittenFiles(protos, modules, orders) ==
    [module \in DOMAIN modules |->
        [code |-> modules[module].code_buf,
         has_json |-> \E i \in 1..Len(protos) : PathContains(protos[i], module),
         json |-> ConfigurationJson(modules[module].serde_config, orders[module]),
         config |-> modules[module].serde_config]]
ModuleOrders(modules) ==
    { o \in [DOMAIN modules -> UNION { ServiceOrders(modules[m].serde_config) : m \in DOMAIN modules }] :
        \A m \in DOMAIN modules : o[m] \in ServiceOrders(modules[m].serde_config) }

\* Inputs: package pkg with message Outer (one drawn field, nested
\* message Inner), message peer, enum size and service Oracle; package
\* other with message Far.
GenFieldNames == { <<"x">>, <<Felt252Prefix, "x">> }
GenTypeNames ==
    [Message |-> { <<"pkg", "peer">>, <<"pkg", "Outer", "Inner">>, <<"other", "Far">> },
     Enum |-> { <<"pkg", "size">> }]
GenFields ==
    { FieldDescriptorProto(n, t, l, p, <<>>) :
        n \in GenFieldNames, t \in ProtoScalarTypes,
        l \in {"Optional", "Repeated"}, p \in BOOLEAN }
    \cup UNION { { FieldDescriptorProto(n, t, l, p, tn) :
                    n \in GenFieldNames, l \in {"Optional", "Repeated"},
                    p \in BOOLEAN, tn \in GenTypeNames[t] } : t \in {"Message", "Enum"} }
InnerMessage ==
    DescriptorProto("Inner",
        <<FieldDescriptorProto(<<"n">>, "Uint32", "Optional", FALSE, <<>>)>>, <<>>, <<>>)
PeerMessage ==
    DescriptorProto("peer",
        <<FieldDescriptorProto(<<"n">>, "Uint64", "Optional", FALSE, <<>>)>>, <<>>, <<>>)
FarMessage ==
    DescriptorProto("Far",
        <<FieldDescriptorProto(<<"n">>, "Bool", "Optional", FALSE, <<>>)>>, <<>>, <<>>)
SizeEnum == EnumDescriptorProto("size", Enums.Size)
SqrtMethod == MethodDescriptorProto("Sqrt", <<"pkg", "Outer">>, <<"pkg", "peer">>)
LogMethod == MethodDescriptorProto("Log", <<"other", "Far">>, <<"pkg", "peer">>)
GenMethodLists == { <<SqrtMethod>>, <<SqrtMethod, LogMethod>> }
GenFieldsOf(syntax) ==
    { g \in GenFields : g.proto3_optional => (syntax = "proto3" /\ g.label = "Optional") }
GenInput(syntax, f, ms) ==
    [protos |-> << <<"proto", "pkg">> >>,
     reqs |-> << <<"pkg", FileDescriptorProto(<<"pkg">>, syntax,
                      <<DescriptorProto("Outer", <<f>>, <<InnerMessage>>, <<>>), PeerMessage>>,
                      <<SizeEnum>>,
                      <<ServiceDescriptorProto("Oracle", ms)>>)>>,
                 <<"other", FileDescriptorProto(<<"other">>, syntax, <<FarMessage>>, <<>>, <<>>)>> >>]
GenInputs ==
    UNION { { GenInput(syntax, f, ms) : f \in GenFieldsOf(syntax), ms \in GenMethodLists } :
            syntax \in {"proto2", "proto3"} }
NoGen == [modules |-> <<>>, runs |-> <<>>]

\* One run of the generator: Config::generate ...
GenerateModules ==
    /\ uPc = "generate"
    /\ LET r == generate(uIn.protos, uIn.reqs)
       IN  /\ uSt' = [uSt EXCEPT !.modules = r.modules]
           /\ uPc' = IF r.panicked THEN "panicked" ELSE "write"
    /\ UNCHANGED uIn
    /\ UNCHANGED <<hpVars, codecVars, testVars>>
\* ... and the writing of its outputs; a second run follows the first.
WriteOutputs ==
    /\ uPc = "write"
    /\ \E orders \in ModuleOrders(uSt.modules) :
          uSt' = [modules |-> <<>>,
                  runs |-> Append(uSt.runs, WrittenFiles(uIn.protos, uSt.modules, orders))]
    /\ uPc' = IF uSt.runs = <<>> THEN "generate" ELSE "done"
    /\ UNCHANGED uIn
    /\ UNCHANGED <<hpVars, codecVars, testVars>>

InitGen ==
    /\ HpIdle(0, ServersConfig(TRUE, FixedPollingConfig))
    /\ CodecIdle
    /\ TestIdle
    /\ uPc = "generate"
    /\ uIn \in GenInputs
    /\ uSt = NoGen
NextGen == GenerateModules \/ WriteOutputs
SpecGen == InitGen /\ [][NextGen]_vars

\* The drawn field of message Outer and what the generator made of it.
GenField == uIn.reqs[1][2].message_type[1].field[1]
GeneratedModules == uPc = "write"
GeneratedField == uSt.modules["pkg"].serde_config.messages[<<"Outer">>][1]
MappedBase(field, ty) ==
    CASE field.type \in {"Uint32", "Fixed32"} -> ty = Primitive("U32")
      [] field.type \in {"Uint64", "Fixed64"} -> ty = Primitive("U64")
      [] field.type \in {"Int32", "Sint32", "Sfixed32"} -> ty = Primitive("I32")
      [] field.type \in {"Int64", "Sint64", "Sfixed64"} -> ty = Primitive("I64")
      [] field.type = "Bool" -> ty = Primitive("BOOL")
      [] field.type = "Bytes" -> ty = Primitive("BYTEARRAY")
      [] field.type = "String" ->
            ty = IF field.name[1] = Felt252Prefix
                 THEN Primitive("FELT252") ELSE Primitive("BYTEARRAY")
      [] field.type = "Message" -> ty[1] = "message"
      [] field.type = "Enum" -> ty[1] = "enum"
      [] OTHER -> FALSE
Mapped(field, ty) ==
    IF field.label = "Repeated" THEN ty[1] = "array" /\ MappedBase(field, ty[2])
    ELSE IF field.type = "Message" THEN ty[1] = "option" /\ MappedBase(field, ty[2])
    ELSE IF ty[1] = "option" THEN MappedBase(field, ty[2])
    ELSE MappedBase(field, ty)

\* C26: every proto field is mapped as the table says: the unsigned and
\* signed integer types to U32, U64, I32, I64, bool to BOOL, bytes to
\* BYTEARRAY, string to FELT252 iff the field name begins with "felt252_"
\* and to BYTEARRAY otherwise, message and enum to a reference of the
\* matching kind; float and double end the generator with a fatal error;
\* a repeated field becomes Array of the mapped type and an optional
\* message field becomes Option of it.
C26_TypeMapping ==
    /\ uPc = "panicked" => GenField.type \in {"Float", "Double"}
    /\ GeneratedModules =>
          /\ GenField.type \notin {"Float", "Double"}
          /\ Mapped(GenField, GeneratedField.ty)

RECURSIVE Resolves(_, _)
Resolves(config, ty) ==
    CASE ty[1] = "message" -> ty[2] \in DOMAIN config.messages
      [] ty[1] = "enum" -> ty[2] \in DOMAIN config.enums
      [] ty[1] \in {"option", "array"} -> Resolves(config, ty[2])
      [] OTHER -> TRUE
Closed(config) ==
    /\ \A k \in DOMAIN config.messages :
          \A i \in 1..Len(config.messages[k]) : Resolves(config, config.messages[k][i].ty)
    /\ \A s \in DOMAIN config.services :
          \A m \in DOMAIN config.services[s].methods :
              /\ Resolves(config, config.services[s].methods[m].input)
              /\ Resolves(config, config.services[s].methods[m].output)
SchemaWritten(r, module) == uSt.runs[r][module].has_json

\* C23: in every schema the generator writes, each Message and each Enum
\* reference of a field type or of a method's input or output is a key of
\* the messages map, respectively the enums map, of that schema; nested
\* messages, repeated and optional enum fields and types of other
\* packages included.
C23_SchemaClosure ==
    \A r \in 1..Len(uSt.runs) :
        \A module \in DOMAIN uSt.runs[r] :
            SchemaWritten(r, module) => Closed(uSt.runs[r][module].config)

SortedByKey(entries) ==
    \A i, j \in 1..Len(entries) : i < j => KeyLess(entries[i][1], entries[j][1])
BothRunsDone == uPc = "done"

\* C24: two runs of the generator on the same inputs write the same Cairo
\* files and the same schema JSON, and in the JSON the messages, the enums
\* and the services appear sorted by key; services with two or more
\* methods and inputs with several packages included.
C24_Determinism ==
    BothRunsDone =>
        \A module \in DOMAIN uSt.runs[1] :
            /\ uSt.runs[1][module].code = uSt.runs[2][module].code
            /\ SchemaWritten(1, module) = SchemaWritten(2, module)
            /\ SchemaWritten(1, module) =>
                  /\ uSt.runs[1][module].json = uSt.runs[2][module].json
                  /\ \A r \in 1..2 :
                        /\ SortedByKey(uSt.runs[r][module].json.enums)
                        /\ SortedByKey(uSt.runs[r][module].json.messages)
                        /\ SortedByKey(uSt.runs[r][module].json.services)

\* ---------------------------------------------------------------------
\* Loading a schema and resolving a selector in it.
\* ---------------------------------------------------------------------
\* serde_json::from_reader into Configuration: the entries of each JSON
\* object are inserted in text order, a repeated key replacing the
\* earlier entry; a text that is not JSON is an error.
RECURSIVE FromEntries(_, _)
FromEntries(entries, map) ==
    IF entries = <<>> THEN map
    ELSE FromEntries(Tail(entries), MapInsert(map, Head(entries)[1], Head(entries)[2]))
RECURSIVE ServicesFromEntries(_, _)
ServicesFromEntries(entries, map) ==
    IF entries = <<>> THEN map
    ELSE ServicesFromEntries(Tail(entries),
            MapInsert(map, Head(entries)[1], [methods |-> FromEntries(Head(entries)[2], <<>>)]))
from_reader(text) ==
    IF ~text.well_formed THEN [ok |-> FALSE, config |-> EmptyConfiguration]
    ELSE [ok |-> TRUE,
          config |-> [enums |-> FromEntries(text.enums, <<>>),
                      messages |-> FromEntries(text.messages, <<>>),
                      services |-> ServicesFromEntries(text.services, <<>>)]]

\* configuration.services.iter().find_map(|(_, methods)| methods.methods.get(selector))
ServicesDeclaring(config, selector) ==
    { k \in DOMAIN config.services : selector \in DOMAIN config.services[k].methods }
find_method(config, selector) ==
    LET hits == ServicesDeclaring(config, selector)
    IN  IF hits = {} THEN [found |-> FALSE, service |-> <<>>, method |-> MethodDeclaration(<<>>, <<>>)]
        ELSE LET first == CHOOSE k \in hits : \A o \in hits : o = k \/ KeyLess(k, o)
             IN  [found |-> TRUE, service |-> first,
                  method |-> config.services[first].methods[selector]]

\* Inputs: schema texts with up to two service entries, each with up to
\* two method entries, and the selector that a hint asks for.
LoadSelectors == {"sqrt", "log"}
LoadServiceKeys == { <<"EchoOracle">>, <<"SqrtOracle">> }
DeclOf(k) == MethodDeclaration(Message(<<"Outer">>), Message(k))
MethodEntries(k) ==
    {<<>>} \cup { << <<m, DeclOf(k)>> >> : m \in LoadSelectors }
    \cup { << <<m, DeclOf(k)>>, <<n, DeclOf(k)>> >> : m \in LoadSelectors, n \in LoadSelectors }
ServiceEntries == UNION { { <<k, ms>> : ms \in MethodEntries(k) } : k \in LoadServiceKeys }
SchemaText(well_formed, services) ==
    [well_formed |-> well_formed, enums |-> <<>>, messages |-> <<>>, services |-> services]
SchemaTexts ==
    { SchemaText(w, <<e>>) : w \in BOOLEAN, e \in ServiceEntries }
    \cup { SchemaText(TRUE, <<e, f>>) : e \in ServiceEntries, f \in ServiceEntries }
NoLoad == [config |-> EmptyConfiguration, hit |-> find_method(EmptyConfiguration, "sqrt")]

\* main(): the schema file is read when a package is tested ...
LoadSchema ==
    /\ uPc = "load"
    /\ uPc' = IF from_reader(uIn.text).ok THEN "loaded" ELSE "rejected"
    /\ uSt' = [uSt EXCEPT !.config = from_reader(uIn.text).config]
    /\ UNCHANGED uIn
    /\ UNCHANGED <<hpVars, codecVars, testVars>>
\* ... and execute_cheatcode looks the selector of a hint up in it.
LookupSelector ==
    /\ uPc = "loaded"
    /\ uPc' = IF find_method(uSt.config, uIn.selector).found THEN "resolved" ELSE "unknown"
    /\ uSt' = [uSt EXCEPT !.hit = find_method(uSt.config, uIn.selector)]
    /\ UNCHANGED uIn
    /\ UNCHANGED <<hpVars, codecVars, testVars>>

InitLoad ==
    /\ HpIdle(0, ServersConfig(TRUE, FixedPollingConfig))
    /\ CodecIdle
    /\ TestIdle
    /\ uPc = "load"
    /\ uIn \in [text : SchemaTexts, selector : LoadSelectors]
    /\ uSt = NoLoad
NextLoad == LoadSchema \/ LookupSelector
SpecLoad == InitLoad /\ [][NextLoad]_vars

\* Two service entries of different keys declare a method of the same name.
Collides(text) ==
    \E i, j \in 1..Len(text.services) :
        /\ text.services[i][1] # text.services[j][1]
        /\ \E a \in 1..Len(text.services[i][2]), b \in 1..Len(text.services[j][2]) :
              text.services[i][2][a][1] = text.services[j][2][b][1]
SchemaAccepted == uPc \in {"loaded", "resolved", "unknown"}

\* C25: a schema in which two services declare a method of the same name
\* is rejected when it is loaded, so in a loaded schema every selector is
\* declared by at most one service and the lookup never has to choose
\* between two services.
C25_SelectorCollisions ==
    /\ (uPc # "load" /\ uIn.text.well_formed /\ Collides(uIn.text)) => uPc = "rejected"
    /\ SchemaAccepted =>
          \A selector \in LoadSelectors :
              Cardinality(ServicesDeclaring(uSt.config, selector)) <= 1

====
